---------------------------- MODULE Spec2Model ----------------------------
(***************************************************************************)
(* A model of rlox, a tree-walking interpreter: the recursive-descent      *)
(* parser (parser/parse.rs), the static resolver (resolver/resolve.rs),    *)
(* the chained environments (environment/env.rs) and the evaluator         *)
(* (interpreter/interp.rs, function/func.rs, class/lox_class.rs,           *)
(* instance/inst.rs), driven as main.rs `run` drives them.                 *)
(*                                                                         *)
(* Numbers are 64-bit floats in the program; the model keeps the integers  *)
(* among them, which is all the programs below compute with.               *)
(***************************************************************************)
EXTENDS Integers, Sequences, FiniteSets, TLC

VARIABLES
    scanner,      \* Scanner {source, tokens, start, current, line} and where
                  \* scan_tokens is
    prog,         \* index of the source being run (main.rs run: `source`)
    tokens,       \* Parser.tokens: the scanner's output for that source
    phase,        \* where `run` is: "parse", "resolve", "run", "done"
    parser,       \* Parser {current, loop_depth}, and the errors declaration()
                  \* swallowed, in order (history)
    statements,   \* the statements parse() has collected
    resolver,     \* Resolver {scopes, errors, current_function, current_class}
    locals,       \* Interpreter.locals: node identity -> depth
    heap,         \* environments, functions, classes, instances (the Rc cells)
    environment,  \* Interpreter.environment
    ctl,          \* what the evaluator is about to do, or the result it carries
    kont,         \* the evaluator's call stack: the pending Rust activations
    out,          \* the values printed so far
    ghost         \* history: the scope each resolved node was found in, the
                  \* last write to each binding, the last Environment::assign

vars == <<scanner, prog, tokens, phase, parser, statements, resolver,
          locals, heap, environment, ctl, kont, out, ghost>>

---------------------------------------------------------------------------
(* Tokens: scanner/scanner.rs KEYWORDS and scan_token's fixed lexemes.     *)

Keywords ==
    [and |-> "And", class |-> "Class", else |-> "Else", false |-> "False",
     for |-> "For", fn |-> "Fn", if |-> "If", nil |-> "Nil", or |-> "Or",
     print |-> "Print", return |-> "Return", super |-> "Super",
     this |-> "This", true |-> "True", var |-> "Var", while |-> "While",
     break |-> "Break"]

Punctuation ==
    ("(" :> "LeftParen") @@ (")" :> "RightParen") @@ ("{" :> "LeftBrace") @@
    ("}" :> "RightBrace") @@ ("," :> "Comma") @@ ("." :> "Dot") @@
    ("-" :> "Minus") @@ ("--" :> "Decrement") @@ ("+" :> "Plus") @@
    ("++" :> "Increment") @@ (";" :> "Semicolon") @@ ("*" :> "Star") @@
    ("?" :> "Question") @@ (":" :> "Colon") @@ ("!" :> "Bang") @@
    ("!=" :> "BangEqual") @@ ("=" :> "Equal") @@ ("==" :> "EqualEqual") @@
    (">" :> "Greater") @@ (">=" :> "GreaterEqual") @@ ("<" :> "Less") @@
    ("<=" :> "LessEqual") @@ ("/" :> "Slash")

\* The number and string lexemes the sources below use, with their literals.
NumberLexemes ==
    ("0" :> 0) @@ ("1" :> 1) @@ ("2" :> 2) @@ ("3" :> 3) @@ ("4" :> 4) @@
    ("5" :> 5) @@ ("7" :> 7) @@ ("10" :> 10)

StringLexemes ==
    ("\"global\"" :> "global") @@ ("\"local\"" :> "local") @@
    ("\"A\"" :> "A") @@ ("\"B\"" :> "B") @@ ("\"x\"" :> "x")

\* Literal (token.rs) and Value (interp.rs) share one shape: a tag, a number
\* (the f64, a bool as 0/1, or the heap index of a callable, class or
\* instance) and a string.
NumV(n)  == [t |-> "Number", n |-> n, s |-> ""]
StrV(s)  == [t |-> "String", n |-> 0, s |-> s]
BoolV(b) == [t |-> "Bool", n |-> IF b THEN 1 ELSE 0, s |-> ""]
NilV     == [t |-> "Nil", n |-> 0, s |-> ""]
CallableV(f) == [t |-> "Callable", n |-> f, s |-> ""]
ClassV(c)    == [t |-> "Class", n |-> c, s |-> ""]
InstanceV(i) == [t |-> "Instance", n |-> i, s |-> ""]
NoLiteral == [t |-> "None", n |-> 0, s |-> ""]

Token(kind, lexeme, literal, line) ==
    [kind |-> kind, lexeme |-> lexeme, literal |-> literal, line |-> line]

NoToken == Token("None", "", NoLiteral, 0)
EofToken == Token("Eof", "", NoLiteral, 1)

\* One lexeme to its token, as Scanner::scan_token classifies it; the
\* sources below have one line each.
Lex(s) ==
    IF s \in DOMAIN Punctuation THEN Token(Punctuation[s], s, NoLiteral, 1)
    ELSE IF s \in DOMAIN Keywords THEN Token(Keywords[s], s, NoLiteral, 1)
    ELSE IF s \in DOMAIN NumberLexemes
         THEN Token("Number", s, NumV(NumberLexemes[s]), 1)
    ELSE IF s \in DOMAIN StringLexemes
         THEN Token("String", s, StrV(StringLexemes[s]), 1)
    ELSE Token("Identifier", s, NoLiteral, 1)

\* Scanner::scan_tokens: the tokens of the lexemes, then Eof.
ScanTokens(lexemes) ==
    [i \in 1..(Len(lexemes) + 1) |->
        IF i <= Len(lexemes) THEN Lex(lexemes[i]) ELSE EofToken]

---------------------------------------------------------------------------
(* The syntax tree: ast/expr.rs and the Stmt of parser/parse.rs.  A node   *)
(* the resolver or the evaluator tells apart by address (an Rc<Expr>, a    *)
(* declaration) carries `id`, the index of the token it was built from.    *)

NoNode == [k |-> "None"]

SBlock(stmts, id) == [k |-> "Block", stmts |-> stmts, id |-> id]
SClass(name, superclass, methods, id) ==
    [k |-> "Class", name |-> name, superclass |-> superclass,
     methods |-> methods, id |-> id]
SExpression(e) == [k |-> "Expression", expr |-> e]
SFunction(decl) == [k |-> "Function", decl |-> decl]
SIf(c, t, e) == [k |-> "If", condition |-> c, then_branch |-> t, else_branch |-> e]
SPrint(e) == [k |-> "Print", expr |-> e]
SReturn(v) == [k |-> "Return", value |-> v]
SVar(name, init) == [k |-> "Var", name |-> name, initializer |-> init]
SWhile(c, b) == [k |-> "While", condition |-> c, body |-> b]
SBreak == [k |-> "Break"]
FunctionDecl(name, params, body, id) ==
    [k |-> "Decl", name |-> name, params |-> params, body |-> body, id |-> id]

EAssign(name, value, id) == [k |-> "Assign", name |-> name, value |-> value, id |-> id]
EBinary(l, op, r) == [k |-> "Binary", left |-> l, operator |-> op, right |-> r]
ECall(callee, args) == [k |-> "Call", callee |-> callee, args |-> args]
EUnary(op, r) == [k |-> "Unary", operator |-> op, right |-> r]
EMutate(op, operand, postfix) ==
    [k |-> "Mutate", operator |-> op, operand |-> operand, postfix |-> postfix]
EVariable(name, id) == [k |-> "Variable", name |-> name, id |-> id]
ETernary(c, t, f) == [k |-> "Ternary", condition |-> c, true_expr |-> t, false_expr |-> f]
ESet(obj, name, value) == [k |-> "Set", object |-> obj, name |-> name, value |-> value]
EThis(id) == [k |-> "This", name |-> "this", id |-> id]
ELogical(l, op, r) == [k |-> "Logical", left |-> l, operator |-> op, right |-> r]
ELambda(params, body, id) == [k |-> "Lambda", params |-> params, body |-> body, id |-> id]
ELiteral(lit) == [k |-> "Literal", value |-> lit]
EGet(obj, name) == [k |-> "Get", object |-> obj, name |-> name]
EGrouping(e) == [k |-> "Grouping", expr |-> e]

---------------------------------------------------------------------------
(* The parser: parser/parse.rs.  Every method takes the parser's fields p  *)
(* = {current, loop_depth} and yields a Result with the fields after it;   *)
(* `dropped` is history: the errors declaration() discarded, and `synced`  *)
(* the cursor before and after each call of synchronize().                 *)

POk(p, node) == [ok |-> TRUE, p |-> p, node |-> node, err |-> ""]
PErr(p, e) == [ok |-> FALSE, p |-> p, node |-> NoNode, err |-> e]

ParserNew ==
    [current |-> 0, loop_depth |-> 0, dropped |-> <<>>, synced |-> <<>>,
     targets |-> <<>>]

Peek(p) == IF p.current < Len(tokens) THEN tokens[p.current + 1] ELSE NoToken
IsAtEnd(p) == Peek(p).kind = "Eof"
Previous(p) == tokens[p.current]
Advance(p) == IF ~IsAtEnd(p) THEN [p EXCEPT !.current = @ + 1] ELSE p
Check(p, kinds) == Peek(p).kind \in kinds

\* consume: on success the parser stands after the token, which is
\* Previous of the result.
Consume(p, kind) ==
    IF Peek(p).kind = kind THEN POk(Advance(p), NoNode)
    ELSE IF Peek(p).kind # "None" THEN PErr(p, "UnexpectedToken")
    ELSE PErr(p, "UnexpectedEof")

SyncKinds == {"Class", "Fn", "Var", "For", "If", "While", "Print", "Return"}

RECURSIVE SynchronizeLoop(_)
SynchronizeLoop(p) ==
    IF IsAtEnd(p) THEN p
    ELSE IF Previous(p).kind = "Semicolon" THEN p
    ELSE IF Peek(p).kind \in SyncKinds \cup {"None"} THEN p
    ELSE SynchronizeLoop(Advance(p))

\* synchronize without its first advance() when nothing was consumed yet:
\* the fault C17 excludes.
SynchronizeAtStart(p) == IF p.current = 0 THEN p ELSE SynchronizeLoop(Advance(p))

Synchronize(p) == SynchronizeLoop(Advance(p))

LevelOps(level) ==
    CASE level = "or" -> {"Or"}
      [] level = "and" -> {"And"}
      [] level = "equality" -> {"BangEqual", "EqualEqual"}
      [] level = "comparison" -> {"Greater", "GreaterEqual", "Less", "LessEqual"}
      [] level = "term" -> {"Minus", "Plus"}
      [] level = "factor" -> {"Slash", "Star"}

MkBinary(level, l, op, r) ==
    IF level \in {"or", "and"} THEN ELogical(l, op, r) ELSE EBinary(l, op, r)

\* A method that runs steps in sequence, each `?` returning the first error,
\* is written as the tuple of its steps' results in order, each step
\* passing an error on, and yields the last.  The methods call one another
\* through Parse, which names the method by its rule: a level of the
\* precedence chain names Descend at that level.
RECURSIVE Parse(_, _), ParamLoop(_, _), LambdaParams(_, _), ClassMethods(_, _),
          BlockLoop(_, _), CommaLoop(_, _), LeftAssocLoop(_, _, _), Unary(_),
          CallLoop(_, _), ArgLoop(_, _)

\* After the step r: consume(kind)?, a method call with `?`, Ok(node).
ThenConsume(r, kind) == IF r.ok THEN Consume(r.p, kind) ELSE r
ThenParse(r, rule) == IF r.ok THEN Parse(rule, r.p) ELSE r
ThenOk(r, node) == IF r.ok THEN POk(r.p, node) ELSE r

Rank(level) ==
    CASE level = "unary" -> 0
      [] level = "factor" -> 1
      [] level = "term" -> 2
      [] level = "comparison" -> 3
      [] level = "equality" -> 4
      [] level = "ternary" -> 5
      [] level = "and" -> 6
      [] level = "or" -> 7

\* The level whose function parses the operands of `level`.
Operand(level) ==
    CASE level = "or" -> "and"
      [] level = "and" -> "ternary"
      [] level = "equality" -> "comparison"
      [] level = "comparison" -> "term"
      [] level = "term" -> "factor"
      [] level = "factor" -> "unary"

\* var_declaration, after `var`: the initializer after the name n.
VarInitializer(n) ==
    CASE ~n.ok -> n
      [] n.ok /\ Check(n.p, {"Equal"}) -> Parse("expression", Advance(n.p))
      [] OTHER -> POk(n.p, NoNode)

VarDeclaration(p) ==
    LET n == Consume(p, "Identifier")
        i == VarInitializer(n)
        s == ThenConsume(i, "Semicolon")
        r == ThenOk(s, SVar(Previous(n.p).lexeme, i.node)) IN
    <<n, i, s, r>>[4]

ExpressionStatement(p) ==
    LET e == Parse("expression", p)
        s == ThenConsume(e, "Semicolon")
        r == ThenOk(s, SExpression(e.node)) IN
    <<e, s, r>>[3]

PrintStatement(p) ==
    LET e == Parse("expression", p)
        s == ThenConsume(e, "Semicolon")
        r == ThenOk(s, SPrint(e.node)) IN
    <<e, s, r>>[3]

ReturnStatement(p) ==
    LET v == IF ~Check(p, {"Semicolon"}) THEN Parse("expression", p)
             ELSE POk(p, NoNode)
        s == ThenConsume(v, "Semicolon")
        r == ThenOk(s, SReturn(v.node)) IN
    <<v, s, r>>[3]

\* break_statement: an error unless loop_depth is positive.
BreakStatement(p) ==
    ThenOk(IF p.loop_depth = 0 THEN PErr(p, "BreakException")
           ELSE Consume(p, "Semicolon"),
           SBreak)

\* for_statement builds blocks of its own: `id` tells them apart (the
\* index of `for` for the body-and-increment block, of its `(` for the
\* initializer block).  It leaves loop_depth alone.
ForInitializer(lp) ==
    CASE ~lp.ok -> lp
      [] lp.ok /\ Check(lp.p, {"Semicolon"}) -> POk(Advance(lp.p), NoNode)
      [] lp.ok /\ Check(lp.p, {"Var"}) -> VarDeclaration(Advance(lp.p))
      [] OTHER -> ExpressionStatement(lp.p)

\* The condition (until ";") and the increment (until ")"), each optional.
ForClause(r, until) ==
    CASE ~r.ok -> r
      [] r.ok /\ ~Check(r.p, {until}) -> Parse("expression", r.p)
      [] OTHER -> POk(r.p, NoNode)

ForLoop(forId, init, cond, inc, body) ==
    LET b1 == IF inc.k # "None" THEN SBlock(<<body, SExpression(inc)>>, forId)
              ELSE body
        w == SWhile(IF cond.k # "None" THEN cond ELSE ELiteral(BoolV(TRUE)), b1) IN
    IF init.k # "None" THEN SBlock(<<init, w>>, forId + 1) ELSE w

ForStatement(p) ==
    LET lp == Consume(p, "LeftParen")
        init == ForInitializer(lp)
        cond == ForClause(init, "Semicolon")
        sc == ThenConsume(cond, "Semicolon")
        inc == ForClause(sc, "RightParen")
        rp == ThenConsume(inc, "RightParen")
        body == ThenParse(rp, "statement")
        r == ThenOk(body, ForLoop(p.current - 1, init.node, cond.node, inc.node,
                                  body.node)) IN
    <<lp, init, cond, sc, inc, rp, body, r>>[8]

ElseBranch(t) ==
    CASE ~t.ok -> t
      [] t.ok /\ Check(t.p, {"Else"}) -> Parse("statement", Advance(t.p))
      [] OTHER -> POk(t.p, NoNode)

IfStatement(p) ==
    LET lp == Consume(p, "LeftParen")
        c == ThenParse(lp, "expression")
        rp == ThenConsume(c, "RightParen")
        t == ThenParse(rp, "statement")
        e == ElseBranch(t)
        r == ThenOk(e, SIf(c.node, t.node, e.node)) IN
    <<lp, c, rp, t, e, r>>[6]

\* loop_depth goes up on entry and down only on the successful path.
WhileEnd(b, condition) ==
    IF b.ok THEN POk([b.p EXCEPT !.loop_depth = @ - 1], SWhile(condition, b.node))
    ELSE b

WhileStatement(p) ==
    LET lp == Consume([p EXCEPT !.loop_depth = @ + 1], "LeftParen")
        c == ThenParse(lp, "expression")
        rp == ThenConsume(c, "RightParen")
        b == ThenParse(rp, "statement")
        r == WhileEnd(b, c.node) IN
    <<lp, c, rp, b, r>>[5]

BlockStatement(b, id) == ThenOk(b, SBlock(b.node, id))

Statement(p) ==
    CASE Check(p, {"For"}) -> ForStatement(Advance(p))
      [] Check(p, {"If"}) -> IfStatement(Advance(p))
      [] Check(p, {"Print"}) -> PrintStatement(Advance(p))
      [] Check(p, {"Return"}) -> ReturnStatement(Advance(p))
      [] Check(p, {"While"}) -> WhileStatement(Advance(p))
      [] Check(p, {"Break"}) -> BreakStatement(Advance(p))
      [] Check(p, {"LeftBrace"}) ->
            BlockStatement(Parse("block", Advance(p)), p.current)
      [] OTHER -> ExpressionStatement(p)

\* The parameter loop of function.
ParamLoop(p, acc) ==
    LET n == Consume(p, "Identifier")
        acc1 == Append(acc, Previous(n.p).lexeme) IN
    CASE ~n.ok -> n
      [] n.ok /\ Check(n.p, {"RightParen"}) -> POk(n.p, acc1)
      [] OTHER -> (LET c == Consume(n.p, "Comma") IN
                   IF c.ok THEN ParamLoop(c.p, acc1) ELSE c)

Parameters(lp) ==
    CASE ~lp.ok -> lp
      [] lp.ok /\ ~Check(lp.p, {"RightParen"}) -> ParamLoop(lp.p, <<>>)
      [] OTHER -> POk(lp.p, <<>>)

Function(p) ==
    LET n == Consume(p, "Identifier")
        lp == ThenConsume(n, "LeftParen")
        ps == Parameters(lp)
        rp == ThenConsume(ps, "RightParen")
        lb == ThenConsume(rp, "LeftBrace")
        b == ThenParse(lb, "block")
        r == ThenOk(b, SFunction(FunctionDecl(Previous(n.p).lexeme, ps.node,
                                              b.node, n.p.current - 1))) IN
    <<n, lp, ps, rp, lb, b, r>>[7]

ClassMethods(p, acc) ==
    IF ~Check(p, {"RightBrace"}) /\ ~IsAtEnd(p)
    THEN LET m == Parse("function", p) IN
         IF ~m.ok THEN m ELSE ClassMethods(m.p, Append(acc, m.node.decl))
    ELSE POk(p, acc)

\* class_declaration, after `class`: the optional "< Identifier".
SuperclassName(n) ==
    IF n.ok /\ Check(n.p, {"Less"}) THEN Consume(Advance(n.p), "Identifier") ELSE n

Superclass(n, sn) ==
    IF n.ok /\ Check(n.p, {"Less"}) /\ sn.ok
    THEN EVariable(Previous(sn.p).lexeme, sn.p.current - 1)
    ELSE NoNode

ThenMethods(lb) == IF lb.ok THEN ClassMethods(lb.p, <<>>) ELSE lb

ClassDecl(p) ==
    LET n == Consume(p, "Identifier")
        sn == SuperclassName(n)
        lb == ThenConsume(sn, "LeftBrace")
        ms == ThenMethods(lb)
        rb == ThenConsume(ms, "RightBrace")
        r == ThenOk(rb, SClass(Previous(n.p).lexeme, Superclass(n, sn), ms.node,
                               n.p.current - 1)) IN
    <<n, sn, lb, ms, rb, r>>[6]

\* declaration: an error is dropped and the parser synchronizes.
Recover(r) ==
    IF r.ok THEN POk(r.p, r.node)
    ELSE POk([Synchronize(r.p) EXCEPT
                 !.dropped = Append(@, r.err),
                 !.synced = Append(@, <<r.p.current, Synchronize(r.p).current>>)],
             NoNode)

Declaration(p) ==
    Recover(CASE Check(p, {"Var"}) -> VarDeclaration(Advance(p))
              [] Check(p, {"Class"}) -> ClassDecl(Advance(p))
              [] Check(p, {"Fn"}) -> Parse("function", Advance(p))
              [] OTHER -> Parse("statement", p))

BlockLoop(p, acc) ==
    IF ~Check(p, {"RightBrace"}) /\ ~IsAtEnd(p)
    THEN LET d == Parse("declaration", p) IN
         <<d, BlockLoop(d.p, IF d.node.k # "None" THEN Append(acc, d.node)
                             ELSE acc)>>[2]
    ELSE POk(p, acc)

BlockEnd(b, rb) == ThenOk(rb, b.node)

Block(p) ==
    LET b == BlockLoop(p, <<>>)
        rb == ThenConsume(b, "RightBrace") IN
    <<b, rb, BlockEnd(b, rb)>>[3]

CommaLoop(p, expr) ==
    IF Peek(p).kind = "Comma"
    THEN LET r == Parse("assignment", Advance(p)) IN
         <<r, IF r.ok THEN CommaLoop(r.p, EBinary(expr, "Comma", r.node)) ELSE r>>[2]
    ELSE POk(p, expr)

\* expr is comma.
Expression(p) ==
    LET e == Parse("assignment", p) IN
    <<e, IF e.ok THEN CommaLoop(e.p, e.node) ELSE e>>[2]

\* The parser p with one more assignment target recorded: the kind of the
\* left-hand side and what assignment() returned for it.
Target(p, kind, result) ==
    [p EXCEPT !.targets = Append(@, [kind |-> kind, result |-> result])]

\* An assignment that looks through parentheses for its target: the fault
\* C21 excludes.
AssignToThroughGrouping(e, v) ==
    CASE ~e.ok -> e
      [] e.ok /\ Peek(e.p).kind # "Equal" -> e
      [] e.ok /\ Peek(e.p).kind = "Equal" /\ ~v.ok -> v
      [] OTHER ->
           CASE e.node.k = "Variable" ->
                   POk(Target(v.p, "Variable", "Assign"),
                       EAssign(e.node.name, v.node, e.node.id))
             [] e.node.k = "Grouping" /\ e.node.expr.k = "Variable" ->
                   POk(Target(v.p, "Grouping", "Assign"),
                       EAssign(e.node.expr.name, v.node, e.node.expr.id))
             [] e.node.k = "Get" ->
                   POk(Target(v.p, "Get", "Set"),
                       ESet(e.node.object, e.node.name, v.node))
             [] OTHER -> PErr(Target(v.p, e.node.k, "InvalidAssignmentTarget"),
                              "InvalidAssignmentTarget")

\* assignment, with the target e and the value v parsed.
AssignTo(e, v) ==
    CASE ~e.ok -> e
      [] e.ok /\ Peek(e.p).kind # "Equal" -> e
      [] e.ok /\ Peek(e.p).kind = "Equal" /\ ~v.ok -> v
      [] OTHER ->
           CASE e.node.k = "Variable" ->
                   POk(Target(v.p, "Variable", "Assign"),
                       EAssign(e.node.name, v.node, e.node.id))
             [] e.node.k = "Get" ->
                   POk(Target(v.p, "Get", "Set"),
                       ESet(e.node.object, e.node.name, v.node))
             [] OTHER -> PErr(Target(v.p, e.node.k, "InvalidAssignmentTarget"),
                              "InvalidAssignmentTarget")

AssignedValue(e) ==
    IF e.ok /\ Peek(e.p).kind = "Equal" THEN Parse("assignment", Advance(e.p))
    ELSE e

Assignment(p) ==
    LET e == Parse("or", p)
        v == AssignedValue(e) IN
    <<e, v, AssignTo(e, v)>>[3]

\* The loop of a binary level, after its first operand expr.
LeftAssocLoop(level, p, expr) ==
    IF Peek(p).kind \in LevelOps(level)
    THEN LET r == Parse(Operand(level), Advance(p)) IN
         <<r, IF r.ok
              THEN LeftAssocLoop(level, r.p,
                                 MkBinary(level, expr, Peek(p).kind, r.node))
              ELSE r>>[2]
    ELSE POk(p, expr)

\* ternary, after its condition e: the branch t, then the other branch.
TernaryElse(t) ==
    CASE ~t.ok -> t
      [] t.ok /\ Peek(t.p).kind = "Colon" -> Parse("ternary", Advance(t.p))
      [] t.ok /\ Peek(t.p).kind = "None" -> PErr(t.p, "UnexpectedEof")
      [] OTHER -> PErr(t.p, "UnexpectedToken")

Ternary(e) ==
    IF Peek(e.p).kind = "Question"
    THEN LET t == Parse("assignment", Advance(e.p))
             f == TernaryElse(t) IN
         <<t, f, ThenOk(f, ETernary(e.node, t.node, f.node))>>[3]
    ELSE e

\* What `level` does with the result r of the level below it.
After(level, r) ==
    CASE ~r.ok -> r
      [] r.ok /\ level = "ternary" -> Ternary(r)
      [] OTHER -> LeftAssocLoop(level, r.p, r.node)

ArgLoop(p, acc) ==
    LET a == Parse("assignment", p) IN
    <<a, CASE ~a.ok -> a
           [] a.ok /\ Check(a.p, {"Comma"}) ->
                 ArgLoop(Advance(a.p), Append(acc, a.node))
           [] OTHER -> POk(a.p, Append(acc, a.node))>>[2]

FinishCall(p, callee) ==
    LET as == IF ~Check(p, {"RightParen"}) THEN ArgLoop(p, <<>>) ELSE POk(p, <<>>)
        rp == ThenConsume(as, "RightParen") IN
    <<as, rp, ThenOk(rp, ECall(callee, as.node))>>[3]

\* The loop of call: calls, property accesses, postfix ++ and --.
ThenCallLoop(c) == IF c.ok THEN CallLoop(c.p, c.node) ELSE c

PropertyName(n, expr) ==
    IF n.ok THEN CallLoop(n.p, EGet(expr, Previous(n.p).lexeme)) ELSE n

CallLoop(p, expr) ==
    CASE Peek(p).kind = "LeftParen" ->
            (LET c == FinishCall(Advance(p), expr) IN <<c, ThenCallLoop(c)>>[2])
      [] Peek(p).kind = "Dot" ->
            PropertyName(Consume(Advance(p), "Identifier"), expr)
      [] Peek(p).kind \in {"Increment", "Decrement"} ->
            CallLoop(Advance(p), EMutate(Peek(p).kind, expr, TRUE))
      [] OTHER -> POk(p, expr)

\* primary's lambda arm, after `fn` (the token before p), and its
\* parameter loop.
LambdaParams(p, acc) ==
    LET n == Consume(p, "Identifier")
        acc1 == Append(acc, Previous(n.p).lexeme) IN
    CASE Len(acc) >= 255 -> PErr(p, "TooManyParams")
      [] Len(acc) < 255 /\ ~n.ok -> n
      [] Len(acc) < 255 /\ n.ok /\ Check(n.p, {"Comma"}) ->
            LambdaParams(Advance(n.p), acc1)
      [] OTHER -> POk(n.p, acc1)

LambdaParameters(lp) ==
    CASE ~lp.ok -> lp
      [] lp.ok /\ ~Check(lp.p, {"RightParen"}) -> LambdaParams(lp.p, <<>>)
      [] OTHER -> POk(lp.p, <<>>)

Lambda(p) ==
    LET lp == Consume(p, "LeftParen")
        ps == LambdaParameters(lp)
        rp == ThenConsume(ps, "RightParen")
        lb == ThenConsume(rp, "LeftBrace")
        b == ThenParse(lb, "block")
        r == ThenOk(b, ELambda(ps.node, b.node, p.current - 1)) IN
    <<lp, ps, rp, lb, b, r>>[6]

Grouping(e) ==
    CASE ~e.ok -> e
      [] e.ok /\ Peek(e.p).kind = "RightParen" -> POk(Advance(e.p), EGrouping(e.node))
      [] OTHER -> PErr(e.p, "UnterminatedParen")

\* primary has no arm for the `super` keyword: it falls to the last one.
Primary(p) ==
    CASE Peek(p).kind = "None" -> PErr(p, "UnexpectedEof")
      [] Peek(p).kind = "This" -> POk(Advance(p), EThis(p.current))
      [] Peek(p).kind = "Identifier" ->
            POk(Advance(p), EVariable(Peek(p).lexeme, p.current))
      [] Peek(p).kind = "False" -> POk(Advance(p), ELiteral(BoolV(FALSE)))
      [] Peek(p).kind = "True" -> POk(Advance(p), ELiteral(BoolV(TRUE)))
      [] Peek(p).kind = "Nil" -> POk(Advance(p), ELiteral(NilV))
      [] Peek(p).kind \in {"Number", "String"} ->
            POk(Advance(p), ELiteral(Peek(p).literal))
      [] Peek(p).kind = "LeftParen" -> Grouping(Parse("expression", Advance(p)))
      [] Peek(p).kind = "Fn" -> Parse("lambda", Advance(p))
      [] OTHER -> PErr(p, "UnexpectedExpression")

Call(p) == ThenCallLoop(Primary(p))

PrefixOperator(r, operator) ==
    IF r.ok THEN POk(r.p, EUnary(operator, r.node)) ELSE r

Unary(p) ==
    IF Peek(p).kind \in {"Bang", "Minus"}
    THEN PrefixOperator(Unary(Advance(p)), Peek(p).kind)
    ELSE Call(p)

\* or, and, ternary, equality, comparison, term, factor: each level's
\* function starts by calling the next one, down to unary, and then works
\* on what came back.  Descend(level, p) is that chain of calls written in
\* the order the calls return: unary's result first, the level's own last.
Level(n, rank, level, r) == IF n >= rank THEN After(level, r) ELSE r

Descend(level, p) ==
    LET n == Rank(level)
        unary == Parse("unary", p)
        factor == Level(n, 1, "factor", unary)
        term == Level(n, 2, "term", factor)
        comparison == Level(n, 3, "comparison", term)
        equality == Level(n, 4, "equality", comparison)
        ternary == Level(n, 5, "ternary", equality)
        and == Level(n, 6, "and", ternary)
        or == Level(n, 7, "or", and) IN
    <<unary, factor, term, comparison, equality, ternary, and, or>>[8]

Parse(rule, p) ==
    CASE rule = "declaration" -> Declaration(p)
      [] rule = "statement" -> Statement(p)
      [] rule = "function" -> Function(p)
      [] rule = "block" -> Block(p)
      [] rule = "expression" -> Expression(p)
      [] rule = "assignment" -> Assignment(p)
      [] rule = "unary" -> Unary(p)
      [] rule = "lambda" -> Lambda(p)
      [] OTHER -> Descend(rule, p)

---------------------------------------------------------------------------
(* The resolver: resolver/resolve.rs.  r holds the Resolver's fields and   *)
(* the interpreter's `locals` it fills through Interpreter::resolve.       *)
(* History kept beside them: `tags` names, for each scope on the stack,    *)
(* the construct that opened it, and `found` the scope a node's name was   *)
(* found in.  `panicked` is the unimplemented!() of resolve_expr.          *)

EmptyMap == <<>>
Insert(map, key, val) == (key :> val) @@ map

\* The keys of the hasher a Resolver's scope maps are built with
\* (HashMap::new): they fix the order in which a map is iterated.
Hashers == {0, 1}

ResolverNew ==
    [scopes |-> <<>>, errors |-> <<>>, current_function |-> "None",
     current_class |-> "None", locals |-> EmptyMap,
     tags |-> <<>>, found |-> EmptyMap, panicked |-> FALSE, hasher |-> 0]

\* The keys of a map in the order its iteration yields them under a hasher.
Iteration(map, hasher) ==
    LET keys == DOMAIN map
        n == Cardinality(keys)
        order == CHOOSE f \in [1..n -> keys] : \A k \in keys : \E i \in 1..n : f[i] = k IN
    IF hasher = 0 THEN order ELSE [i \in 1..n |-> order[n + 1 - i]]

BeginScope(r, tag) ==
    [r EXCEPT !.scopes = Append(@, EmptyMap), !.tags = Append(@, tag)]

EndScope(r) ==
    IF Len(r.scopes) = 0 THEN r
    ELSE [r EXCEPT !.scopes = SubSeq(@, 1, Len(@) - 1),
                   !.tags = SubSeq(@, 1, Len(@) - 1)]

ScopeInsert(r, name, val) ==
    [r EXCEPT !.scopes[Len(r.scopes)] = Insert(@, name, val)]

Declare(r, name) ==
    IF Len(r.scopes) = 0 THEN r
    ELSE LET r1 == IF name \in DOMAIN r.scopes[Len(r.scopes)]
                   THEN [r EXCEPT !.errors = Append(@, "ExistingVar")]
                   ELSE r IN
         ScopeInsert(r1, name, FALSE)

Define(r, name) ==
    IF Len(r.scopes) = 0 THEN r ELSE ScopeInsert(r, name, TRUE)

\* Interpreter::resolve (interp.rs) is the insert into locals.
RECURSIVE ResolveLocalFrom(_, _, _, _)
ResolveLocalFrom(r, i, id, name) ==
    IF i = 0 THEN r
    ELSE IF name \in DOMAIN r.scopes[i]
    THEN [r EXCEPT !.locals = Insert(@, id, Len(r.scopes) - i),
                   !.found = Insert(@, id, r.tags[i])]
    ELSE ResolveLocalFrom(r, i - 1, id, name)

\* resolve_local asking each scope for the first key of its iteration,
\* `keys().next() == Some(name)` for `contains_key(name)`: the fault C22
\* excludes.
RECURSIVE FirstKeyFrom(_, _, _, _)
FirstKeyFrom(r, i, id, name) ==
    IF i = 0 THEN r
    ELSE IF r.scopes[i] # EmptyMap /\ Iteration(r.scopes[i], r.hasher)[1] = name
    THEN [r EXCEPT !.locals = Insert(@, id, Len(r.scopes) - i),
                   !.found = Insert(@, id, r.tags[i])]
    ELSE FirstKeyFrom(r, i - 1, id, name)

ResolveLocalFirstKey(r, id, name) == FirstKeyFrom(r, Len(r.scopes), id, name)

\* resolve_local with `len - i` for `len - 1 - i`: the fault C1 excludes.
ResolveLocalOffByOne(r, id, name) ==
    LET r1 == ResolveLocalFrom(r, Len(r.scopes), id, name) IN
    IF id \in DOMAIN r1.locals THEN [r1 EXCEPT !.locals[id] = @ + 1] ELSE r1

ResolveLocal(r, id, name) == ResolveLocalFrom(r, Len(r.scopes), id, name)

PushError(r, e) == [r EXCEPT !.errors = Append(@, e)]

\* The end of the Class arm with current_class left as it is: the fault C26
\* excludes.
LeaveClassUnrestored(r, enclosing_class) == r

\* The end of the Class arm of resolve_stmt: current_class is restored.
LeaveClass(r, enclosing_class) == [r EXCEPT !.current_class = enclosing_class]

RECURSIVE ResolveStmts(_, _, _), ResolveStmt(_, _), ResolveExpr(_, _),
          ResolveExprs(_, _, _), ResolveFunction(_, _, _), ResolveMethods(_, _, _)

ResolveExprs(es, i, r) ==
    IF i > Len(es) \/ r.panicked THEN r
    ELSE ResolveExprs(es, i + 1, ResolveExpr(es[i], r))

ResolveExpr(e, r) ==
    CASE r.panicked -> r
      [] ~r.panicked /\ e.k = "Variable" ->
            (LET r1 == IF /\ Len(r.scopes) > 0
                          /\ e.name \in DOMAIN r.scopes[Len(r.scopes)]
                          /\ r.scopes[Len(r.scopes)][e.name] = FALSE
                       THEN PushError(r, "LocalVarDecl") ELSE r IN
             ResolveLocal(r1, e.id, e.name))
      [] ~r.panicked /\ e.k = "Assign" ->
            (LET r1 == ResolveExpr(e.value, r) IN
             IF r1.panicked THEN r1 ELSE ResolveLocal(r1, e.id, e.name))
      [] ~r.panicked /\ e.k \in {"Binary", "Logical"} ->
            ResolveExpr(e.right, ResolveExpr(e.left, r))
      [] ~r.panicked /\ e.k = "Ternary" ->
            ResolveExpr(e.false_expr,
                ResolveExpr(e.true_expr, ResolveExpr(e.condition, r)))
      [] ~r.panicked /\ e.k = "Call" ->
            ResolveExprs(e.args, 1, ResolveExpr(e.callee, r))
      [] ~r.panicked /\ e.k = "Set" ->
            ResolveExpr(e.object, ResolveExpr(e.value, r))
      [] ~r.panicked /\ e.k = "Super" ->
            (LET r1 == IF r.current_class = "None"
                       THEN PushError(r, "SuperTypeError")
                       ELSE IF r.current_class # "SubClass"
                       THEN PushError(r, "SuperTypeError") ELSE r IN
             ResolveLocal(r1, e.id, "super"))
      [] ~r.panicked /\ e.k = "Get" -> ResolveExpr(e.object, r)
      [] ~r.panicked /\ e.k = "This" ->
            (LET r1 == IF r.current_class = "None"
                       THEN PushError(r, "ThisOutsideClass") ELSE r IN
             ResolveLocal(r1, e.id, "this"))
      [] ~r.panicked /\ e.k = "Grouping" -> ResolveExpr(e.expr, r)
      [] ~r.panicked /\ e.k = "Unary" -> ResolveExpr(e.right, r)
      [] ~r.panicked /\ e.k = "Literal" -> r
      [] OTHER -> [r EXCEPT !.panicked = TRUE]   \* Mutate, Lambda: unimplemented!()

RECURSIVE DeclareParams(_, _, _)
DeclareParams(params, i, r) ==
    IF i > Len(params) THEN r
    ELSE DeclareParams(params, i + 1, Define(Declare(r, params[i]), params[i]))

\* resolve_function without `self.current_function = enclosing_func`: the
\* fault C25 excludes.
ResolveFunctionNoRestore(function, r, func_type) ==
    LET r1 == BeginScope([r EXCEPT !.current_function = func_type],
                         <<"fn", function.id>>)
        r2 == DeclareParams(function.params, 1, r1)
        r3 == ResolveStmts(function.body, 1, r2) IN
    IF r3.panicked THEN r3 ELSE EndScope(r3)

ResolveFunction(function, r, func_type) ==
    LET enclosing_func == r.current_function
        r1 == BeginScope([r EXCEPT !.current_function = func_type],
                         <<"fn", function.id>>)
        r2 == DeclareParams(function.params, 1, r1)
        r3 == ResolveStmts(function.body, 1, r2) IN
    IF r3.panicked THEN r3
    ELSE [EndScope(r3) EXCEPT !.current_function = enclosing_func]

ResolveMethods(methods, i, r) ==
    IF i > Len(methods) \/ r.panicked THEN r
    ELSE ResolveMethods(methods, i + 1,
             ResolveFunction(methods[i], r,
                 IF methods[i].name = "init" THEN "Initializer" ELSE "Method"))

ResolveStmts(stmts, i, r) ==
    IF i > Len(stmts) \/ r.panicked THEN r
    ELSE ResolveStmts(stmts, i + 1, ResolveStmt(stmts[i], r))

ResolveStmt(stmt, r) ==
    CASE r.panicked -> r
      [] ~r.panicked /\ stmt.k = "Block" ->
            (LET r1 == ResolveStmts(stmt.stmts, 1,
                                    BeginScope(r, <<"block", stmt.id>>)) IN
             IF r1.panicked THEN r1 ELSE EndScope(r1))
      [] ~r.panicked /\ stmt.k = "Var" ->
            (LET r1 == Declare(r, stmt.name)
                 r2 == IF stmt.initializer.k # "None"
                       THEN ResolveExpr(stmt.initializer, r1) ELSE r1 IN
             IF r2.panicked THEN r2 ELSE Define(r2, stmt.name))
      [] ~r.panicked /\ stmt.k = "Function" ->
            ResolveFunction(stmt.decl,
                Define(Declare(r, stmt.decl.name), stmt.decl.name), "Function")
      [] ~r.panicked /\ stmt.k = "Class" ->
            (LET enclosing_class == r.current_class
                 hasSuper == stmt.superclass.k # "None"
                 r1 == Define(Declare([r EXCEPT !.current_class = "Class"],
                                      stmt.name), stmt.name)
                 r2 == IF hasSuper /\ stmt.superclass.name = stmt.name
                       THEN PushError(r1, "SelfInheritance") ELSE r1
                 r3 == IF hasSuper
                       THEN ResolveExpr(stmt.superclass,
                                [r2 EXCEPT !.current_class = "SubClass"])
                       ELSE r2
                 r4 == IF hasSuper
                       THEN ScopeInsert(BeginScope(r3, <<"super", stmt.id>>),
                                        "super", TRUE)
                       ELSE r3
                 r5 == ScopeInsert(BeginScope(r4, <<"this", stmt.id>>), "this", TRUE)
                 r6 == ResolveMethods(stmt.methods, 1, r5)
                 r7 == EndScope(r6)
                 r8 == IF hasSuper THEN EndScope(r7) ELSE r7 IN
             IF r6.panicked THEN r6
             ELSE LeaveClass(r8, enclosing_class))
      [] ~r.panicked /\ stmt.k = "Expression" -> ResolveExpr(stmt.expr, r)
      [] ~r.panicked /\ stmt.k = "If" ->
            (LET r1 == ResolveStmt(stmt.then_branch,
                                   ResolveExpr(stmt.condition, r)) IN
             IF stmt.else_branch.k # "None" THEN ResolveStmt(stmt.else_branch, r1)
             ELSE r1)
      [] ~r.panicked /\ stmt.k = "Print" -> ResolveExpr(stmt.expr, r)
      [] ~r.panicked /\ stmt.k = "Return" ->
            (LET r1 == IF r.current_function = "None"
                       THEN PushError(r, "IllegalReturn") ELSE r
                 r2 == IF r1.current_function = "Initializer"
                          /\ stmt.value.k # "None"
                       THEN PushError(r1, "InitializerReturn") ELSE r1 IN
             IF stmt.value.k # "None" THEN ResolveExpr(stmt.value, r2) ELSE r2)
      [] ~r.panicked /\ stmt.k = "While" ->
            ResolveStmt(stmt.body, ResolveExpr(stmt.condition, r))
      [] OTHER -> r                                   \* Break

---------------------------------------------------------------------------
(* The heap: the Rc cells the interpreter allocates.  An environment, a    *)
(* function, a class and an instance are each named by their index.        *)
(* History kept in the cells: an environment's `tag` is the construct it   *)
(* was created for and `act` the activation it belongs to; a function's    *)
(* `owner` is the class declaration it is a method of and `bound` the      *)
(* instance bind gave it; a class's `at` is the environment it closed over.*)

GlobalsId == 1
ClockId == 1

\* Environment::new and Environment::from_enclosing (0 is None).
NewEnv(enclosing, tag, act) ==
    [values |-> EmptyMap, enclosing |-> enclosing, tag |-> tag, act |-> act]

FromEnclosing(envs, enclosing, tag) ==
    Append(envs, NewEnv(enclosing, tag, Len(envs) + 1))

EnvDefine(envs, e, name, val) ==
    [envs EXCEPT ![e].values = Insert(@, name, val)]

RECURSIVE Ancestor(_, _, _)
Ancestor(envs, e, distance) ==
    IF distance = 0 THEN e
    ELSE IF envs[e].enclosing = 0 THEN 0
    ELSE Ancestor(envs, envs[e].enclosing, distance - 1)

ROk(v) == [ok |-> TRUE, val |-> v, err |-> ""]
RErr(e) == [ok |-> FALSE, val |-> NilV, err |-> e]

RECURSIVE EnvGet(_, _, _)
EnvGet(envs, e, name) ==
    IF name \in DOMAIN envs[e].values THEN ROk(envs[e].values[name])
    ELSE IF envs[e].enclosing # 0 THEN EnvGet(envs, envs[e].enclosing, name)
    ELSE RErr("UndefinedVariable")

GetAt(envs, e, distance, name) ==
    LET target == Ancestor(envs, e, distance) IN
    IF target # 0 THEN EnvGet(envs, target, name) ELSE RErr("UndefinedVariable")

GetAtString(envs, e, distance, name) ==
    LET target == Ancestor(envs, e, distance) IN
    IF target # 0 /\ name \in DOMAIN envs[target].values
    THEN ROk(envs[target].values[name])
    ELSE RErr("UndefinedVariable")

\* Environment::assign inserts first and asks afterwards whether the key
\* was there.  The result carries the environments as it leaves them.
RECURSIVE EnvAssign(_, _, _, _)
EnvAssign(envs, e, name, val) ==
    LET had == name \in DOMAIN envs[e].values
        envs1 == [envs EXCEPT ![e].values = Insert(@, name, val)] IN
    IF had THEN [ok |-> TRUE, envs |-> envs1]
    ELSE IF envs[e].enclosing # 0
    THEN EnvAssign(envs1, envs[e].enclosing, name, val)
    ELSE [ok |-> FALSE, envs |-> envs1]

AssignAt(envs, e, distance, name, val) ==
    LET scope == Ancestor(envs, e, distance) IN
    IF scope # 0 THEN EnvAssign(envs, scope, name, val)
    ELSE [ok |-> FALSE, envs |-> envs]

\* The environments from e outwards, e first.
RECURSIVE Chain(_, _)
Chain(envs, e) ==
    IF e = 0 THEN <<>> ELSE <<e>> \o Chain(envs, envs[e].enclosing)

\* The nearest environment from e outwards that binds name (0: none).
RECURSIVE Holder(_, _, _)
Holder(envs, e, name) ==
    IF e = 0 THEN 0
    ELSE IF name \in DOMAIN envs[e].values THEN e
    ELSE Holder(envs, envs[e].enclosing, name)

---------------------------------------------------------------------------
(* Values, functions, classes and instances: interp.rs, func.rs,           *)
(* lox_class.rs, inst.rs.                                                  *)

IsTruthy(v) ==
    IF v.t = "Nil" THEN FALSE ELSE IF v.t = "Bool" THEN v.n = 1 ELSE TRUE

\* impl PartialEq for Value: callables, classes and instances never equal.
ValueEq(a, b) ==
    a.t = b.t /\ a.t \in {"String", "Number", "Bool", "Nil"} /\ a = b

\* Function {declaration, closure, is_initializer}; the native Clock has
\* no declaration and arity 0.
NewFunction(declaration, closure, is_initializer, owner) ==
    [declaration |-> declaration, closure |-> closure,
     is_initializer |-> is_initializer, native |-> FALSE,
     owner |-> owner, bound |-> 0]

Clock ==
    [declaration |-> FunctionDecl("clock", <<>>, <<>>, 0), closure |-> 0,
     is_initializer |-> FALSE, native |-> TRUE, owner |-> 0, bound |-> 0]

FunctionNew(declaration, closure, owner) ==
    NewFunction(declaration, closure, declaration.name = "init", owner)

NewInitializer(declaration, closure, owner) ==
    NewFunction(declaration, closure, TRUE, owner)

Arity(h, f) == Len(h.funs[f].declaration.params)

\* A bind that defines `this` in the method's own closure and hands the
\* method itself back: the fault C7 excludes.
BindInPlace(h, f, instance) ==
    [h |-> [h EXCEPT !.envs = EnvDefine(@, h.funs[f].closure, "this",
                                        InstanceV(instance)),
                     !.funs[f].bound = instance],
     f |-> f]

\* Function::bind: a new environment around the closure that defines
\* `this`, and a new Function over it.  The result names the new function.
Bind(h, f, instance) ==
    LET envs1 == FromEnclosing(h.envs, h.funs[f].closure,
                               <<"this", h.funs[f].owner>>)
        env == Len(envs1)
        envs2 == EnvDefine(envs1, env, "this", InstanceV(instance))
        fn == [h.funs[f] EXCEPT !.closure = env, !.bound = instance] IN
    [h |-> [h EXCEPT !.envs = envs2, !.funs = Append(@, fn)],
     f |-> Len(h.funs) + 1]

\* LoxClass::find_method (0 is None).
RECURSIVE FindMethod(_, _, _)
FindMethod(classes, c, name) ==
    IF name \in DOMAIN classes[c].methods THEN classes[c].methods[name]
    ELSE IF classes[c].superclass # 0
    THEN FindMethod(classes, classes[c].superclass, name)
    ELSE 0

\* An arity that looks for init in the class's own methods only: the fault
\* C24 excludes.
ClassArityOwnInit(h, c) ==
    IF "init" \in DOMAIN h.classes[c].methods
    THEN Arity(h, h.classes[c].methods["init"]) ELSE 0

ClassArity(h, c) ==
    LET initializer == FindMethod(h.classes, c, "init") IN
    IF initializer # 0 THEN Arity(h, initializer) ELSE 0

\* A get that looks for a method before it looks at the fields: the fault
\* C27 excludes.
InstanceGetMethodFirst(h, instance, name) ==
    LET method == FindMethod(h.classes, h.insts[instance].klass, name) IN
    IF method # 0
    THEN LET b == Bind(h, method, instance) IN
         [h |-> b.h, r |-> ROk(CallableV(b.f))]
    ELSE IF name \in DOMAIN h.insts[instance].fields
    THEN [h |-> h, r |-> ROk(h.insts[instance].fields[name])]
    ELSE [h |-> h, r |-> RErr("TypeError")]

\* LoxInstance::get: a field, else a method bound to the instance.
InstanceGet(h, instance, name) ==
    LET method == FindMethod(h.classes, h.insts[instance].klass, name) IN
    IF name \in DOMAIN h.insts[instance].fields
    THEN [h |-> h, r |-> ROk(h.insts[instance].fields[name])]
    ELSE IF method # 0
    THEN LET b == Bind(h, method, instance) IN
         [h |-> b.h, r |-> ROk(CallableV(b.f))]
    ELSE [h |-> h, r |-> RErr("TypeError")]

InstanceSet(h, instance, name, value) ==
    [h EXCEPT !.insts[instance].fields = Insert(@, name, value)]

\* impl Display for Value, and f64's Display on the integers.
NumberToString(n) == ToString(n)

Display(h, v) ==
    CASE v.t = "String" -> v.s
      [] v.t = "Number" -> NumberToString(v.n)
      [] v.t = "Bool" -> (IF v.n = 1 THEN "true" ELSE "false")
      [] v.t = "Nil" -> "nil"
      [] v.t = "Callable" ->
            (IF h.funs[v.n].native THEN "Clock"
             ELSE IF h.funs[v.n].declaration.name = "" THEN "<fn <anonymous>>"
             ELSE "<fn " \o h.funs[v.n].declaration.name \o ">")
      [] v.t = "Class" -> h.classes[v.n].name
      [] v.t = "Instance" -> h.classes[h.insts[v.n].klass].name \o " instance"

\* evaluate_unary and evaluate_binary once the operands are values.
UnaryOp(op, right) ==
    IF op = "Minus"
    THEN (IF right.t = "Number" THEN ROk(NumV(0 - right.n)) ELSE RErr("UnaryMinus"))
    ELSE ROk(BoolV(~IsTruthy(right)))

BothNumbers(l, r) == l.t = "Number" /\ r.t = "Number"

BinaryOp(op, l, r) ==
    CASE op = "Plus" ->
            (IF BothNumbers(l, r) THEN ROk(NumV(l.n + r.n))
             ELSE IF l.t = "String" /\ r.t = "String" THEN ROk(StrV(l.s \o r.s))
             ELSE IF l.t = "String" /\ r.t = "Number"
                  THEN ROk(StrV(l.s \o NumberToString(r.n)))
             ELSE IF l.t = "Number" /\ r.t = "String"
                  THEN ROk(StrV(NumberToString(l.n) \o r.s))
             ELSE RErr("BinaryPlus"))
      [] op = "Minus" ->
            (IF BothNumbers(l, r) THEN ROk(NumV(l.n - r.n)) ELSE RErr("BinaryMinus"))
      [] op = "Star" ->
            (IF BothNumbers(l, r) THEN ROk(NumV(l.n * r.n)) ELSE RErr("BinaryMult"))
      [] op = "Slash" ->
            (IF BothNumbers(l, r)
             THEN (IF r.n = 0 THEN RErr("BinaryDBZ") ELSE ROk(NumV(l.n \div r.n)))
             ELSE RErr("BinaryDiv"))
      [] op = "EqualEqual" -> ROk(BoolV(ValueEq(l, r)))
      [] op = "BangEqual" -> ROk(BoolV(~ValueEq(l, r)))
      [] op = "Greater" ->
            (IF BothNumbers(l, r) THEN ROk(BoolV(l.n > r.n)) ELSE RErr("BinaryComp"))
      [] op = "Less" ->
            (IF BothNumbers(l, r) THEN ROk(BoolV(l.n < r.n)) ELSE RErr("BinaryComp"))
      [] op = "GreaterEqual" ->
            (IF BothNumbers(l, r) THEN ROk(BoolV(l.n >= r.n)) ELSE RErr("BinaryComp"))
      [] op = "LessEqual" ->
            (IF BothNumbers(l, r) THEN ROk(BoolV(l.n <= r.n)) ELSE RErr("BinaryComp"))

---------------------------------------------------------------------------
(* The scanner: scanner/scanner.rs, over a source held as the sequence of  *)
(* its characters.  `current` and `start` count the characters before the  *)
(* cursor (the sources are ASCII: one byte each); None is NoChar.  `pc` is *)
(* where scan_tokens is: at the top of its loop ("scan"), inside the loop  *)
(* of string() ("string"), returned Ok ("done") or Err ("err").  `opened`  *)
(* is history: the line counter when scan_token was entered.               *)

NoChar == ""

Digits == {"0", "1", "2", "3", "4", "5", "6", "7", "8", "9"}

Letters ==
    {"a", "b", "c", "d", "e", "f", "g", "h", "i", "j", "k", "l", "m", "n",
     "o", "p", "q", "r", "s", "t", "u", "v", "w", "x", "y", "z", "A", "B",
     "C", "D", "E", "F", "G", "H", "I", "J", "K", "L", "M", "N", "O", "P",
     "Q", "R", "S", "T", "U", "V", "W", "X", "Y", "Z"}

IsDigit(c) == c \in Digits
IsAlpha(c) == c \in Letters \/ c = "_"
IsAlphaNumeric(c) == IsAlpha(c) \/ c \in Digits

DigitValue(c) ==
    CASE c = "0" -> 0 [] c = "1" -> 1 [] c = "2" -> 2 [] c = "3" -> 3
      [] c = "4" -> 4 [] c = "5" -> 5 [] c = "6" -> 6 [] c = "7" -> 7
      [] c = "8" -> 8 [] c = "9" -> 9

ScannerNew(source) ==
    [source |-> source, tokens |-> <<>>, start |-> 0, current |-> 0,
     line |-> 1, pc |-> "scan", err |-> "", err_line |-> 0, opened |-> 1]

ScanIsAtEnd(s) == s.current >= Len(s.source)

ScanPeek(s) == IF s.current < Len(s.source) THEN s.source[s.current + 1] ELSE NoChar

PeekNext(s) ==
    IF s.current + 1 < Len(s.source) THEN s.source[s.current + 2] ELSE NoChar

ScanAdvance(s) ==
    IF ScanPeek(s) = NoChar THEN s ELSE [s EXCEPT !.current = @ + 1]

\* match_char: the scanner after it, moved when the next character is c.
MatchChar(s, c) ==
    IF ScanIsAtEnd(s) \/ ScanPeek(s) # c THEN s ELSE [s EXCEPT !.current = @ + 1]

\* &source[a..b]
RECURSIVE Slice(_, _, _)
Slice(source, a, b) ==
    IF a >= b THEN "" ELSE source[a + 1] \o Slice(source, a + 1, b)

AddTokenWithLiteral(s, kind, literal) ==
    [s EXCEPT !.tokens = Append(@, Token(kind, Slice(s.source, s.start, s.current),
                                         literal, s.line))]

AddToken(s, kind) == AddTokenWithLiteral(s, kind, NoLiteral)

ScanErr(s, e) == [s EXCEPT !.pc = "err", !.err = e, !.err_line = s.line]

\* The one- and two-character operators: after c, `second` makes `both`.
TwoChar(s, second, both, one) ==
    LET m == MatchChar(s, second) IN
    AddToken(m, IF m.current # s.current THEN both ELSE one)

RECURSIVE IdentifierLoop(_)
IdentifierLoop(s) ==
    IF ScanPeek(s) # NoChar /\ IsAlphaNumeric(ScanPeek(s))
    THEN IdentifierLoop(ScanAdvance(s)) ELSE s

Identifier(s) ==
    LET e == IdentifierLoop(s)
        text == Slice(e.source, e.start, e.current) IN
    AddToken(e, IF text \in DOMAIN Keywords THEN Keywords[text] ELSE "Identifier")

RECURSIVE DigitLoop(_)
DigitLoop(s) ==
    IF ScanPeek(s) # NoChar /\ IsDigit(ScanPeek(s)) THEN DigitLoop(ScanAdvance(s)) ELSE s

\* The value of the digits source[a..b], read as an integer.
RECURSIVE Whole(_, _, _)
Whole(source, a, b) ==
    IF a >= b THEN 0 ELSE Whole(source, a, b - 1) * 10 + DigitValue(source[b])

\* The digits source[a..b] of a fraction, without the zeros at its end.
RECURSIVE Fraction(_, _, _)
Fraction(source, a, b) ==
    IF a >= b THEN ""
    ELSE IF source[b] = "0" THEN Fraction(source, a, b - 1)
    ELSE Slice(source, a, b)

\* number(): digits, then '.' and digits when a digit follows the '.'.  The
\* literal is the f64 the lexeme parses to: its integer part in n, and the
\* digits of its fraction in s.
Number(s) ==
    LET whole == DigitLoop(s)
        dotted == ScanPeek(whole) = "." /\ PeekNext(whole) # NoChar
                  /\ IsDigit(PeekNext(whole))
        e == IF dotted THEN DigitLoop(ScanAdvance(whole)) ELSE whole IN
    AddTokenWithLiteral(e, "Number",
        [t |-> "Number", n |-> Whole(e.source, e.start, whole.current),
         s |-> IF dotted THEN Fraction(e.source, whole.current + 1, e.current)
               ELSE ""])

\* A `//` that does not stop at the newline: the fault C18 excludes.
LineCommentToEnd(s) == [s EXCEPT !.current = Len(s.source)]

\* `//`: up to the newline or the end.
RECURSIVE LineComment(_)
LineComment(s) ==
    IF ScanPeek(s) # "\n" /\ ~ScanIsAtEnd(s) THEN LineComment(ScanAdvance(s)) ELSE s

RECURSIVE ConsumeMultilineComment(_)
ConsumeMultilineComment(s) ==
    LET c == ScanPeek(s) IN
    CASE c = NoChar -> ScanErr(s, "UnterminatedComment")
      [] c = "*" -> IF PeekNext(s) = "/" THEN ScanAdvance(ScanAdvance(s))
                    ELSE ConsumeMultilineComment(ScanAdvance(s))
      [] c = "\n" -> ConsumeMultilineComment(ScanAdvance([s EXCEPT !.line = @ + 1]))
      [] OTHER -> ConsumeMultilineComment(ScanAdvance(s))

Slash(s) ==
    IF ScanPeek(s) = "/" THEN LineComment(ScanAdvance(s))
    ELSE IF ScanPeek(s) = "*" THEN ConsumeMultilineComment(ScanAdvance(s))
    ELSE AddToken(s, "Slash")

\* scan_token, c being the character advance() returned; '"' leaves the
\* scanner at the top of the loop of string().
ScanChar(s, c) ==
    CASE c \in {"(", ")", "{", "}", ",", ".", ";", "*", "?", ":"} ->
            AddToken(s, Punctuation[c])
      [] c = "-" -> TwoChar(s, "-", "Decrement", "Minus")
      [] c = "+" -> TwoChar(s, "+", "Increment", "Plus")
      [] c = "!" -> TwoChar(s, "=", "BangEqual", "Bang")
      [] c = "=" -> TwoChar(s, "=", "EqualEqual", "Equal")
      [] c = "<" -> TwoChar(s, "=", "LessEqual", "Less")
      [] c = ">" -> TwoChar(s, "=", "GreaterEqual", "Greater")
      [] c = "/" -> Slash(s)
      [] c \in {" ", "\r", "\t"} -> s
      [] c = "\n" -> [s EXCEPT !.line = @ + 1]
      [] c = "\"" -> [s EXCEPT !.pc = "string"]
      [] OTHER -> IF IsDigit(c) THEN Number(s)
                  ELSE IF IsAlpha(c) THEN Identifier(s)
                  ELSE ScanErr(s, "UnexpectedChar")

\* The largest value the model lets the line counter take.
MaxLine == 4

\* One turn of the loop of string() that stays in the loop.  A newline adds
\* one to the line counter and does not advance.
StringLoop(s) ==
    LET ch == ScanPeek(s) IN
    CASE ch = "\n" -> [s EXCEPT !.line = @ + 1]
      [] ch = "\\" -> IF ScanIsAtEnd(ScanAdvance(s))
                       THEN ScanErr(ScanAdvance(s), "UnterminatedEscape")
                       ELSE ScanAdvance(ScanAdvance(s))
      [] OTHER -> ScanAdvance(s)

\* string() after its loop: at the end of the source, or at the closing '"'.
StringClose(s) ==
    IF ScanIsAtEnd(s) THEN ScanErr(s, "UnterminatedString")
    ELSE LET e == ScanAdvance(s) IN
         [AddTokenWithLiteral(e, "String",
                              StrV(Slice(e.source, e.start + 1, e.current - 1)))
             EXCEPT !.pc = "scan"]

---------------------------------------------------------------------------
(* The sources the model runs, as the lexemes the scanner cuts them into. *)

\* spec.md section 8, scenario 1: closures over a counter:
\*   fn makeCounter() { var i = 0; fn count() { i = i + 1; print i; } return
\*    count; } var c = makeCounter(); c(); c(); c();
SrcMakeCounter ==
    <<"fn", "makeCounter", "(", ")", "{", "var", "i", "=", "0", ";", "fn",
      "count", "(", ")", "{", "i", "=", "i", "+", "1", ";", "print", "i",
      ";", "}", "return", "count", ";", "}", "var", "c", "=",
      "makeCounter", "(", ")", ";", "c", "(", ")", ";", "c", "(", ")", ";",
      "c", "(", ")", ";">>

\* scenario 2: shadowing via resolved depth:
\*   var a = "global"; { fn showA() { print a; } showA(); var a = "local";
\*    showA(); }
SrcShowA ==
    <<"var", "a", "=", "\"global\"", ";", "{", "fn", "showA", "(", ")",
      "{", "print", "a", ";", "}", "showA", "(", ")", ";", "var", "a", "=",
      "\"local\"", ";", "showA", "(", ")", ";", "}">>

\* scenario 3: class with inheritance and super:
\*   class A { method() { print "A"; } } class B < A { method() { print "B";
\*    } test() { super.method(); } } class C < B {} C().test();
SrcSuper ==
    <<"class", "A", "{", "method", "(", ")", "{", "print", "\"A\"", ";",
      "}", "}", "class", "B", "<", "A", "{", "method", "(", ")", "{",
      "print", "\"B\"", ";", "}", "test", "(", ")", "{", "super", ".",
      "method", "(", ")", ";", "}", "}", "class", "C", "<", "B", "{", "}",
      "C", "(", ")", ".", "test", "(", ")", ";">>

\* scenario 4: init implicit return:
\*   class Foo { init() { return; } } var f = Foo(); print f;
SrcInitReturn ==
    <<"class", "Foo", "{", "init", "(", ")", "{", "return", ";", "}", "}",
      "var", "f", "=", "Foo", "(", ")", ";", "print", "f", ";">>

\* scenario 5: short-circuit evaluation:
\*   fn sideEffect() { print "x"; return true; } print false and
\*    sideEffect(); print true or sideEffect();
SrcShortCircuit ==
    <<"fn", "sideEffect", "(", ")", "{", "print", "\"x\"", ";", "return",
      "true", ";", "}", "print", "false", "and", "sideEffect", "(", ")",
      ";", "print", "true", "or", "sideEffect", "(", ")", ";">>

\* scenario 6: break inside nested loops:
\*   for (var i = 0; i < 3; i = i + 1) { for (var j = 0; j < 3; j = j + 1) {
\*    if (j == 1) break; print i; print j; } }
SrcNestedBreak ==
    <<"for", "(", "var", "i", "=", "0", ";", "i", "<", "3", ";", "i", "=",
      "i", "+", "1", ")", "{", "for", "(", "var", "j", "=", "0", ";", "j",
      "<", "3", ";", "j", "=", "j", "+", "1", ")", "{", "if", "(", "j",
      "==", "1", ")", "break", ";", "print", "i", ";", "print", "j", ";",
      "}", "}">>

\* a break in a function body that a loop encloses, run outside the loop:
\*   var g; while (true) { fn f() { break; } g = f; break; } g();
SrcBreakInFn ==
    <<"var", "g", ";", "while", "(", "true", ")", "{", "fn", "f", "(", ")",
      "{", "break", ";", "}", "g", "=", "f", ";", "break", ";", "}", "g",
      "(", ")", ";">>

\* an assignment to a name no scope binds:
\*   { x = 1; }
SrcAssignUndefined ==
    <<"{", "x", "=", "1", ";", "}">>

\* two instances, their bound methods, and a reassigned variable:
\*   class P { init(n) { this.n = n; } show() { print this.n; } } var o =
\*    P(1); var m = o.show; var q = P(2); var m2 = q.show; o = q; m(); m2();
SrcBoundMethods ==
    <<"class", "P", "{", "init", "(", "n", ")", "{", "this", ".", "n", "=",
      "n", ";", "}", "show", "(", ")", "{", "print", "this", ".", "n", ";",
      "}", "}", "var", "o", "=", "P", "(", "1", ")", ";", "var", "m", "=",
      "o", ".", "show", ";", "var", "q", "=", "P", "(", "2", ")", ";",
      "var", "m2", "=", "q", ".", "show", ";", "o", "=", "q", ";", "m",
      "(", ")", ";", "m2", "(", ")", ";">>

\* init inherited, returning from nested statements, and called on the instance:
\*   class A { init() { this.v = 1; while (true) { if (true) return; } } }
\*    class B < A {} var b = B(); print b.v; var r = b.init(); r.v = 5;
\*    print b.v; print r;
SrcInit ==
    <<"class", "A", "{", "init", "(", ")", "{", "this", ".", "v", "=", "1",
      ";", "while", "(", "true", ")", "{", "if", "(", "true", ")",
      "return", ";", "}", "}", "}", "class", "B", "<", "A", "{", "}",
      "var", "b", "=", "B", "(", ")", ";", "print", "b", ".", "v", ";",
      "var", "r", "=", "b", ".", "init", "(", ")", ";", "r", ".", "v", "=",
      "5", ";", "print", "b", ".", "v", ";", "print", "r", ";">>

\* blocks and calls left by return, break and runtime errors:
\*   fn f(n) { { var a = n; if (a > 1) return a; } } print f(2); print f(1);
\*    var k = 0; while (k < 2) { k = k + 1; { if (k == 2) break; else print
\*    k; } } fn g() { { var z = nil; return -z; } } { g(); }
SrcExits ==
    <<"fn", "f", "(", "n", ")", "{", "{", "var", "a", "=", "n", ";", "if",
      "(", "a", ">", "1", ")", "return", "a", ";", "}", "}", "print", "f",
      "(", "2", ")", ";", "print", "f", "(", "1", ")", ";", "var", "k",
      "=", "0", ";", "while", "(", "k", "<", "2", ")", "{", "k", "=", "k",
      "+", "1", ";", "{", "if", "(", "k", "==", "2", ")", "break", ";",
      "else", "print", "k", ";", "}", "}", "fn", "g", "(", ")", "{", "{",
      "var", "z", "=", "nil", ";", "return", "-", "z", ";", "}", "}", "{",
      "g", "(", ")", ";", "}">>

\* names resolved through a block, activations and a super scope:
\*   { var a = 1; class Q { get() { return a; } } class R < Q { bump() { a =
\*    a + 1; return this; } } print R().bump().get(); }
SrcScopes ==
    <<"{", "var", "a", "=", "1", ";", "class", "Q", "{", "get", "(", ")",
      "{", "return", "a", ";", "}", "}", "class", "R", "<", "Q", "{",
      "bump", "(", ")", "{", "a", "=", "a", "+", "1", ";", "return",
      "this", ";", "}", "}", "print", "R", "(", ")", ".", "bump", "(", ")",
      ".", "get", "(", ")", ";", "}">>

\* this reached from a function nested in a method; functions as arguments:
\*   class M { me() { fn inner() { return this; } return inner(); } } print
\*    M().me(); fn twice(h, x) { return h(h(x)); } fn inc(x) { return x + 1;
\*    } print twice(inc, 0);
SrcThis ==
    <<"class", "M", "{", "me", "(", ")", "{", "fn", "inner", "(", ")", "{",
      "return", "this", ";", "}", "return", "inner", "(", ")", ";", "}",
      "}", "print", "M", "(", ")", ".", "me", "(", ")", ";", "fn", "twice",
      "(", "h", ",", "x", ")", "{", "return", "h", "(", "h", "(", "x", ")",
      ")", ";", "}", "fn", "inc", "(", "x", ")", "{", "return", "x", "+",
      "1", ";", "}", "print", "twice", "(", "inc", ",", "0", ")", ";">>

\* every operator of evaluate_unary, evaluate_binary and evaluate_ternary:
\*   var t = clock() >= 0 ? 1 : 2; print !nil != (-t == 0 - 1); print 4 / 2
\*    * 3 - 1 <= 5; print "A" + "B" + 1; print 1 + "x"; print (t = 3, t +
\*    1); print nil or false ? 1 : 2; print 1 / 0;
SrcOperators ==
    <<"var", "t", "=", "clock", "(", ")", ">=", "0", "?", "1", ":", "2",
      ";", "print", "!", "nil", "!=", "(", "-", "t", "==", "0", "-", "1",
      ")", ";", "print", "4", "/", "2", "*", "3", "-", "1", "<=", "5", ";",
      "print", "\"A\"", "+", "\"B\"", "+", "1", ";", "print", "1", "+",
      "\"x\"", ";", "print", "(", "t", "=", "3", ",", "t", "+", "1", ")",
      ";", "print", "nil", "or", "false", "?", "1", ":", "2", ";", "print",
      "1", "/", "0", ";">>

\* a superclass that is not a class:
\*   var N = 1; fn f() { class D < N {} } { f(); }
SrcClassErrors ==
    <<"var", "N", "=", "1", ";", "fn", "f", "(", ")", "{", "class", "D",
      "<", "N", "{", "}", "}", "{", "f", "(", ")", ";", "}">>

\* properties, fields over methods, objects that are not instances:
\*   class T { m() { return 7; } } var t = T(); print t.m(); t.m = 1; print
\*    t.m; print T; print t.m.x;
SrcProps ==
    <<"class", "T", "{", "m", "(", ")", "{", "return", "7", ";", "}", "}",
      "var", "t", "=", "T", "(", ")", ";", "print", "t", ".", "m", "(",
      ")", ";", "t", ".", "m", "=", "1", ";", "print", "t", ".", "m", ";",
      "print", "T", ";", "print", "t", ".", "m", ".", "x", ";">>

\* a set on a value that is no instance, an undefined property, a wrong arity:
\*   class T { init(a) { } } fn f(x) { return x; } print f; var t = T(1); if
\*    (false) print 1; { f(1).y = 2; }
SrcSetErrors ==
    <<"class", "T", "{", "init", "(", "a", ")", "{", "}", "}", "fn", "f",
      "(", "x", ")", "{", "return", "x", ";", "}", "print", "f", ";",
      "var", "t", "=", "T", "(", "1", ")", ";", "if", "(", "false", ")",
      "print", "1", ";", "{", "f", "(", "1", ")", ".", "y", "=", "2", ";",
      "}">>

\* a call of a value that is not callable, inside a loop:
\*   fn h() { return "x"(); } var n = 0; while (n < 1) { n = n + 1; h(); }
SrcCallErrors ==
    <<"fn", "h", "(", ")", "{", "return", "\"x\"", "(", ")", ";", "}",
      "var", "n", "=", "0", ";", "while", "(", "n", "<", "1", ")", "{",
      "n", "=", "n", "+", "1", ";", "h", "(", ")", ";", "}">>

\* a call with too few arguments:
\*   fn g(a) { return a; } { print g(1); g(); }
SrcArity ==
    <<"fn", "g", "(", "a", ")", "{", "return", "a", ";", "}", "{", "print",
      "g", "(", "1", ")", ";", "g", "(", ")", ";", "}">>

\* two closures over one variable, and the declaring block itself:
\*   { var n = 0; fn get() { return n; } fn set(v) { n = v; } set(7); print
\*    get(); n = 2; print get(); }
SrcShared ==
    <<"{", "var", "n", "=", "0", ";", "fn", "get", "(", ")", "{", "return",
      "n", ";", "}", "fn", "set", "(", "v", ")", "{", "n", "=", "v", ";",
      "}", "set", "(", "7", ")", ";", "print", "get", "(", ")", ";", "n",
      "=", "2", ";", "print", "get", "(", ")", ";", "}">>

\* a return outside any function: the resolver reports it:
\*   var a = 1; return a;
SrcIllegalReturn ==
    <<"var", "a", "=", "1", ";", "return", "a", ";">>

\* a postfix increment in a statement: the resolver has no arm for it:
\*   var a = 0; a++; print a;
SrcMutateStmt ==
    <<"var", "a", "=", "0", ";", "a", "++", ";", "print", "a", ";">>

\* a parse error inside a while body, then a break at top level:
\*   while (false) print ; print 1; break; print 2;
SrcWhileError ==
    <<"while", "(", "false", ")", "print", ";", "print", "1", ";", "break",
      ";", "print", "2", ";">>

\* an expression without ';': the fallback of run:
\*   (fn (x) { while (x++ < 2) { } })(0)
SrcLambda ==
    <<"(", "fn", "(", "x", ")", "{", "while", "(", "x", "++", "<", "2",
      ")", "{", "}", "}", ")", "(", "0", ")">>

\* the fallback of run: a postfix increment inside a block of a lambda:
\*   (fn (x) { { while (x++ < 2) { } } })(0)
SrcMutateInBlock ==
    <<"(", "fn", "(", "x", ")", "{", "{", "while", "(", "x", "++", "<",
      "2", ")", "{", "}", "}", "}", ")", "(", "0", ")">>

\* a variable incremented, assigned and incremented inside a function:
\*   var x = 1; fn f() { x++; x = 10; x++; } f(); print x;
SrcMutateInFn ==
    <<"var", "x", "=", "1", ";", "fn", "f", "(", ")", "{", "x", "++", ";",
      "x", "=", "10", ";", "x", "++", ";", "}", "f", "(", ")", ";",
      "print", "x", ";">>

\* a callee and arguments with effects, the callee's value not callable:
\*   fn p(n) { print n; return n; } p(1)(p(2), p(3));
SrcCallOrder ==
    <<"fn", "p", "(", "n", ")", "{", "print", "n", ";", "return", "n", ";",
      "}", "p", "(", "1", ")", "(", "p", "(", "2", ")", ",", "p", "(", "3",
      ")", ")", ";">>

\* a class whose init is inherited, called with one argument and with two:
\*   fn p(n) { print n; return n; } class A { init(a) { print "A"; } } class
\*    B < A {} B(p(0)); B(p(1), p(2));
SrcCallChecks ==
    <<"fn", "p", "(", "n", ")", "{", "print", "n", ";", "return", "n", ";",
      "}", "class", "A", "{", "init", "(", "a", ")", "{", "print", "\"A\"",
      ";", "}", "}", "class", "B", "<", "A", "{", "}", "B", "(", "p", "(",
      "0", ")", ")", ";", "B", "(", "p", "(", "1", ")", ",", "p", "(", "2",
      ")", ")", ";">>

\* returns in nested functions and methods, and at top level after them:
\*   fn f() { fn g() { return 1; } return g; } class K { m() { return 2; } }
\*    { return 3; } if (true) return 4; else while (false) { return 5; }
SrcReturns ==
    <<"fn", "f", "(", ")", "{", "fn", "g", "(", ")", "{", "return", "1",
      ";", "}", "return", "g", ";", "}", "class", "K", "{", "m", "(", ")",
      "{", "return", "2", ";", "}", "}", "{", "return", "3", ";", "}",
      "if", "(", "true", ")", "return", "4", ";", "else", "while", "(",
      "false", ")", "{", "return", "5", ";", "}">>

\* this in a function nested in a method, after a nested class, in a function and at top level:
\*   class O { m() { class I { } fn inner() { return this; } return inner; }
\*    } fn t() { return this; } print this;
SrcThisOutside ==
    <<"class", "O", "{", "m", "(", ")", "{", "class", "I", "{", "}", "fn",
      "inner", "(", ")", "{", "return", "this", ";", "}", "return",
      "inner", ";", "}", "}", "fn", "t", "(", ")", "{", "return", "this",
      ";", "}", "print", "this", ";">>

\* methods found nearest class first, a field over an inherited method, a missing property:
\*   class A { m() { return "A"; } n() { return "A"; } } class B < A { m() {
\*    return "B"; } } var o = B(); print o.m(); print o.n(); o.n = 1; print
\*    o.n; print o.z;
SrcFields ==
    <<"class", "A", "{", "m", "(", ")", "{", "return", "\"A\"", ";", "}",
      "n", "(", ")", "{", "return", "\"A\"", ";", "}", "}", "class", "B",
      "<", "A", "{", "m", "(", ")", "{", "return", "\"B\"", ";", "}", "}",
      "var", "o", "=", "B", "(", ")", ";", "print", "o", ".", "m", "(",
      ")", ";", "print", "o", ".", "n", "(", ")", ";", "o", ".", "n", "=",
      "1", ";", "print", "o", ".", "n", ";", "print", "o", ".", "z", ";">>

\* two counters from two calls of one function, then a recursive call around a local:
\*   fn makeCounter() { var i = 0; fn count() { i = i + 1; print i; } return
\*    count; } var a = makeCounter(); var b = makeCounter(); a(); a(); b();
\*    fn r(n) { var x = n; if (n > 0) r(n - 1); print x; print n; } r(1);
SrcActivations ==
    <<"fn", "makeCounter", "(", ")", "{", "var", "i", "=", "0", ";", "fn",
      "count", "(", ")", "{", "i", "=", "i", "+", "1", ";", "print", "i",
      ";", "}", "return", "count", ";", "}", "var", "a", "=",
      "makeCounter", "(", ")", ";", "var", "b", "=", "makeCounter", "(",
      ")", ";", "a", "(", ")", ";", "a", "(", ")", ";", "b", "(", ")", ";",
      "fn", "r", "(", "n", ")", "{", "var", "x", "=", "n", ";", "if", "(",
      "n", ">", "0", ")", "r", "(", "n", "-", "1", ")", ";", "print", "x",
      ";", "print", "n", ";", "}", "r", "(", "1", ")", ";">>

\* an expression without ';' that does not parse:
\*   1 +
SrcFallbackError ==
    <<"1", "+">>

\* a source with ';' and no statement that parses:
\*   print ;
SrcNoStatements ==
    <<"print", ";">>

\* and, or over operands that are not booleans, and a skipped call:
\*   var n = 0; fn sideEffect() { n = n + 1; return true; } print 1 or
\*    sideEffect(); print nil and sideEffect(); print nil or 2; print 1 and
\*    2; print n;
SrcLogical ==
    <<"var", "n", "=", "0", ";", "fn", "sideEffect", "(", ")", "{", "n",
      "=", "n", "+", "1", ";", "return", "true", ";", "}", "print", "1",
      "or", "sideEffect", "(", ")", ";", "print", "nil", "and",
      "sideEffect", "(", ")", ";", "print", "nil", "or", "2", ";", "print",
      "1", "and", "2", ";", "print", "n", ";">>

\* a comma expression whose operands print and count:
\*   var n = 0; fn inc() { n = n + 1; print n; return n; } print (inc(),
\*    inc());
SrcComma ==
    <<"var", "n", "=", "0", ";", "fn", "inc", "(", ")", "{", "n", "=", "n",
      "+", "1", ";", "print", "n", ";", "return", "n", ";", "}", "print",
      "(", "inc", "(", ")", ",", "inc", "(", ")", ")", ";">>

Sources ==
    <<SrcMakeCounter, SrcShowA, SrcSuper, SrcInitReturn, SrcShortCircuit,
      SrcNestedBreak, SrcBreakInFn, SrcAssignUndefined, SrcBoundMethods,
      SrcInit, SrcExits, SrcScopes, SrcThis, SrcOperators, SrcClassErrors,
      SrcProps, SrcSetErrors, SrcCallErrors, SrcArity, SrcShared,
      SrcIllegalReturn, SrcMutateStmt, SrcWhileError, SrcLambda,
      SrcMutateInBlock, SrcMutateInFn, SrcCallOrder, SrcCallChecks,
      SrcReturns, SrcThisOutside, SrcFields, SrcActivations,
      SrcFallbackError, SrcNoStatements, SrcLogical, SrcComma>>

---------------------------------------------------------------------------
(* The evaluator's position.  `ctl` is what it does next ("exec" a         *)
(* statement, "eval" an expression) or the result it carries back ("ok",   *)
(* "val", "err"; ReturnException keeps its value in val), and `kont` the   *)
(* pending Rust activations, the innermost last.  History: `from` names    *)
(* the construct a result comes from, `node` its node, `at` the            *)
(* environment that was current when that construct started.               *)

Ctl(mode, node, val, err, from, at, f) ==
    [mode |-> mode, node |-> node, val |-> val, err |-> err,
     from |-> from, at |-> at, f |-> f]

CIdle == Ctl("idle", NoNode, NilV, "", "", 0, 0)
CExec(stmt) == Ctl("exec", stmt, NilV, "", "", 0, 0)
CEval(expr) == Ctl("eval", expr, NilV, "", "", 0, 0)
COk(from, node, at) == Ctl("ok", node, NilV, "", from, at, 0)
CVal(v, from, node, at) == Ctl("val", node, v, "", from, at, 0)
CErr(e, v, from, node, at) == Ctl("err", node, v, e, from, at, 0)
CHalt(e, from) == Ctl("halt", NoNode, NilV, e, from, 0, 0)
CResult(r, from, node, at) ==
    IF r.ok THEN CVal(r.val, from, node, at) ELSE CErr(r.err, NilV, from, node, at)

\* One activation: the handler k working on node, at position i, holding
\* the values vals, the environment `previous` it will restore and the
\* callable or instance f it works for.
Frame(k, node, i, vals, previous, at, f) ==
    [k |-> k, node |-> node, i |-> i, vals |-> vals, previous |-> previous,
     at |-> at, f |-> f]

Top == kont[Len(kont)]
Pop == SubSeq(kont, 1, Len(kont) - 1)
Push(frame) == Append(kont, frame)
Replace(frame) == [kont EXCEPT ![Len(kont)] = frame]

Returning(k) ==
    phase = "run" /\ Len(kont) > 0 /\ Top.k = k /\ ctl.mode \in {"ok", "val", "err"}
Executing(k) == phase = "run" /\ ctl.mode = "exec" /\ ctl.node.k = k
Evaluating(k) == phase = "run" /\ ctl.mode = "eval" /\ ctl.node.k = k

\* What no step of the evaluator changes.
static == <<scanner, prog, tokens, parser, statements, resolver, locals>>

\* The second run of the resolver, when none is made.
NoRerun == [scopes |-> <<>>, errors |-> <<>>, next |-> 0, panicked |-> FALSE]

NoAssign == [name |-> "", ok |-> TRUE, chain |-> <<>>, before |-> <<>>, after |-> <<>>]

\* Interpreter::new: the globals, holding clock.
HeapNew ==
    [envs |-> <<[NewEnv(0, <<"global", 0>>, GlobalsId)
                    EXCEPT !.values = Insert(EmptyMap, "clock", CallableV(ClockId))]>>,
     funs |-> <<Clock>>, classes |-> <<>>, insts |-> <<>>]

\* The scanner after scan_tokens has returned.
Scanned == [ScannerNew(<<>>) EXCEPT !.pc = "done"]

Init ==
    /\ scanner = Scanned
    /\ prog \in 1..Len(Sources)
    /\ tokens = ScanTokens(Sources[prog])
    /\ phase = "parse"
    /\ parser = ParserNew
    /\ statements = <<>>
    /\ resolver = [scopes |-> <<>>, errors |-> <<>>, current_function |-> "None",
                   current_class |-> "None", tags |-> <<>>, panicked |-> FALSE,
                   next |-> 1, hasher |-> 0]
    /\ locals = EmptyMap
    /\ heap = HeapNew
    /\ environment = GlobalsId
    /\ ctl = CIdle
    /\ kont = <<>>
    /\ out = <<>>
    /\ ghost = [found |-> EmptyMap,
                last |-> Insert(EmptyMap, <<GlobalsId, "clock">>, CallableV(ClockId)),
                assign |-> NoAssign, rerun |-> NoRerun]

---------------------------------------------------------------------------
(* main.rs run: parse, resolve, interpret; or, when no statement parsed    *)
(* and the source has no ';', parse and evaluate one expression.           *)

\* parse() going back to where a dropped declaration began: the fault C16
\* excludes.
ParseDeclarationRewinds ==
    /\ phase = "parse"
    /\ ~IsAtEnd(parser)
    /\ LET d == Parse("declaration", parser) IN
       /\ parser' = IF d.node.k # "None" THEN d.p
                     ELSE [d.p EXCEPT !.current = parser.current]
       /\ statements' = IF d.node.k # "None" THEN Append(statements, d.node)
                        ELSE statements
    /\ UNCHANGED <<scanner, prog, tokens, phase, resolver, locals, heap, environment,
                   ctl, kont, out, ghost>>

\* Parser::parse, one turn of its loop.
ParseDeclaration ==
    /\ phase = "parse"
    /\ ~IsAtEnd(parser)
    /\ LET d == Parse("declaration", parser) IN
       /\ parser' = d.p
       /\ statements' = IF d.node.k # "None" THEN Append(statements, d.node)
                        ELSE statements
    /\ UNCHANGED <<scanner, prog, tokens, phase, resolver, locals, heap, environment,
                   ctl, kont, out, ghost>>

\* parse() returned statements: Resolver::new.
ParseEnd ==
    /\ phase = "parse"
    /\ IsAtEnd(parser)
    /\ statements # <<>>
    /\ phase' = "resolve"
    /\ UNCHANGED <<scanner, prog, tokens, parser, statements, resolver, locals, heap,
                   environment, ctl, kont, out, ghost>>

SourceContainsSemicolon ==
    \E i \in 1..Len(tokens) : tokens[i].kind = "Semicolon"

\* parse() returned no statement: the expression fallback.
Fallback ==
    /\ phase = "parse"
    /\ IsAtEnd(parser)
    /\ statements = <<>>
    /\ LET e == Parse("expression", ParserNew) IN
       IF ~SourceContainsSemicolon /\ e.ok
       THEN /\ phase' = "run"
            /\ ctl' = CEval(e.node)
            /\ kont' = <<Frame("Evaluate", e.node, 0, <<>>, environment, environment, 0)>>
       ELSE /\ phase' = "done"
            /\ ctl' = CHalt("ParserError", "parser")
            /\ kont' = kont
    /\ UNCHANGED <<scanner, prog, tokens, parser, statements, resolver, locals, heap,
                   environment, out, ghost>>

\* The resolver's state with the tables it writes into.
Resolving ==
    [scopes |-> resolver.scopes, errors |-> resolver.errors,
     current_function |-> resolver.current_function,
     current_class |-> resolver.current_class, locals |-> locals,
     tags |-> resolver.tags, found |-> ghost.found,
     panicked |-> resolver.panicked, hasher |-> resolver.hasher]

\* Resolver::resolve_stmts, one turn of its loop.
ResolveStatement ==
    /\ phase = "resolve"
    /\ ~resolver.panicked
    /\ resolver.next <= Len(statements)
    /\ LET r == ResolveStmt(statements[resolver.next], Resolving) IN
       /\ resolver' = [scopes |-> r.scopes, errors |-> r.errors,
                       current_function |-> r.current_function,
                       current_class |-> r.current_class, tags |-> r.tags,
                       panicked |-> r.panicked, next |-> resolver.next + 1,
                       hasher |-> r.hasher]
       /\ locals' = r.locals
       /\ ghost' = [ghost EXCEPT !.found = r.found]
    /\ UNCHANGED <<scanner, prog, tokens, phase, parser, statements, heap, environment,
                   ctl, kont, out>>

\* unimplemented!() in resolve_expr: the process aborts.
ResolvePanic ==
    /\ phase = "resolve"
    /\ resolver.panicked
    /\ phase' = "done"
    /\ ctl' = CHalt("panic", "resolver")
    /\ UNCHANGED <<scanner, prog, tokens, parser, statements, resolver, locals, heap,
                   environment, kont, out, ghost>>

\* take_errors: report them and return, or call Interpreter::interpret.
ResolveEnd ==
    /\ phase = "resolve"
    /\ ~resolver.panicked
    /\ resolver.next > Len(statements)
    /\ IF resolver.errors # <<>>
       THEN /\ phase' = "done"
            /\ ctl' = CHalt("CompilerError", "resolver")
            /\ kont' = kont
       ELSE /\ phase' = "run"
            /\ ctl' = COk("", NoNode, environment)
            /\ kont' = <<Frame("Interpret", NoNode, 1, <<>>, environment, environment, 0)>>
    /\ UNCHANGED <<scanner, prog, tokens, parser, statements, resolver, locals, heap,
                   environment, out, ghost>>

---------------------------------------------------------------------------
(* The scanner on its own: Scanner::new on a source, then scan_tokens.     *)

\* The sources: every string over ScanAlphabet of at most MaxSourceLen
\* characters, and the three below.
MaxSourceLen == 4

ScanAlphabet == {"a", "1", " ", "\n", "\"", "/", "*", "=", ".", "\\"}

\* Identifiers, a keyword, both comments, a string with a space in it, a
\* number with a fraction, two-character operators, three lines.
SrcScanMixed ==
    <<"a", " ", "/", "*", "x", "*", "/", " ", "\"", "b", " ", "c", "\"",
      "\n", "/", "/", " ", "d", "\n", "1", ".", "5", "0", " ", "!", "=",
      " ", "i", "f">>

\* A character no arm of scan_token takes.
SrcScanUnexpected ==
    <<"a", " ", "@", " ", "b">>

\* A block comment opened on line 2 that never closes.
SrcScanOpenComment ==
    <<"a", "\n", "/", "*", " ", "b", "\n">>

ScanSources ==
    UNION {[1..n -> ScanAlphabet] : n \in 0..MaxSourceLen}
        \cup {SrcScanMixed, SrcScanUnexpected, SrcScanOpenComment}

\* What the parser, the resolver and the interpreter are before they run.
Fresh ==
    /\ parser = ParserNew
    /\ statements = <<>>
    /\ resolver = [scopes |-> <<>>, errors |-> <<>>, current_function |-> "None",
                   current_class |-> "None", tags |-> <<>>, panicked |-> FALSE,
                   next |-> 1, hasher |-> 0]
    /\ locals = EmptyMap
    /\ heap = HeapNew
    /\ environment = GlobalsId
    /\ ctl = CIdle
    /\ kont = <<>>
    /\ out = <<>>
    /\ ghost = [found |-> EmptyMap,
                last |-> Insert(EmptyMap, <<GlobalsId, "clock">>, CallableV(ClockId)),
                assign |-> NoAssign, rerun |-> NoRerun]

ScanInit ==
    /\ scanner \in {ScannerNew(source) : source \in ScanSources}
    /\ prog = 0
    /\ tokens = <<>>
    /\ phase = "scan"
    /\ Fresh

\* What no step of the scanner changes.
unscanned == <<prog, phase, parser, statements, resolver, locals, heap,
               environment, ctl, kont, out, ghost>>

\* scan_tokens, one turn of its loop: scan_token, up to its return or to
\* the loop of string().
ScanToken ==
    /\ phase = "scan"
    /\ scanner.pc = "scan"
    /\ ~ScanIsAtEnd(scanner)
    /\ scanner' = ScanChar(ScanAdvance([scanner EXCEPT !.start = scanner.current,
                                                       !.opened = scanner.line]),
                           ScanPeek(scanner))
    /\ UNCHANGED <<tokens, unscanned>>

\* string(), one turn of its loop.
StringChar ==
    /\ phase = "scan"
    /\ scanner.pc = "string"
    /\ ScanPeek(scanner) \notin {NoChar, "\""}
    /\ ScanPeek(scanner) = "\n" => scanner.line < MaxLine
    /\ scanner' = StringLoop(scanner)
    /\ UNCHANGED <<tokens, unscanned>>

\* string(), from the end of its loop to its return.
StringEnd ==
    /\ phase = "scan"
    /\ scanner.pc = "string"
    /\ ScanPeek(scanner) \in {NoChar, "\""}
    /\ scanner' = StringClose(scanner)
    /\ UNCHANGED <<tokens, unscanned>>

\* scan_tokens at the end of the source: the Eof token, and the tokens are
\* handed to the caller.
ScanTokensEnd ==
    /\ phase = "scan"
    /\ scanner.pc = "scan"
    /\ ScanIsAtEnd(scanner)
    /\ tokens' = Append(scanner.tokens, Token("Eof", "", NoLiteral, scanner.line))
    /\ scanner' = [scanner EXCEPT !.tokens = <<>>, !.pc = "done"]
    /\ UNCHANGED unscanned

ScanNext == ScanToken \/ StringChar \/ StringEnd \/ ScanTokensEnd

ScanSpec == ScanInit /\ [][ScanNext]_vars

---------------------------------------------------------------------------
(* The parser on its own: Parser::new on a token sequence that ends in     *)
(* Eof, then parse().                                                      *)

\* The inputs: every sequence of at most MaxTokens of the lexemes below,
\* and the longer ones that follow.
MaxTokens == 4

ParseLexemes ==
    {"print", ";", "a", "(", ")", "{", "}", ",", "fn", "class", "while",
     "break", "="}

\* Parameters, arguments, a class body, nested blocks and an error in each
\* of them.
ParseLonger ==
    {<<"fn", "a", "(", "a", ",", "a", ")", "{", "print", "a", ";", "}">>,
     <<"fn", "a", "(", "a", ",", ")", "{", "}", "print", "a", ";">>,
     <<"a", "(", "a", ",", "a", ")", ";">>,
     <<"a", "(", "a", ",", ";", "a", ";">>,
     <<"class", "a", "{", "a", "(", ")", "{", "}", "a", "(", ")", "{", "}", "}">>,
     <<"class", "a", "{", "a", "(", ")", "{", "}", "print", "}", "a", ";">>,
     <<"{", "{", "print", ";", "a", ";", "}", "print", ";", "}", "a", ";">>,
     <<"{", "{", "print", ";", "a", ";", "}", "print", "}", "a", ";">>,
     <<"while", "(", "a", ")", "{", "break", ";", "print", "}">>}

\* Every kind of left-hand side before '=', alone and inside a block, and
\* two of them with no value after the '='.
AssignmentInputs ==
    {<<"a", "=", "1", ";">>,
     <<"a", ".", "b", "=", "1", ";">>,
     <<"1", "=", "2", ";", "print", "a", ";">>,
     <<"(", "a", ")", "=", "1", ";">>,
     <<"a", "(", ")", "=", "1", ";">>,
     <<"a", "+", "a", "=", "1", ";">>,
     <<"a", "?", "a", ":", "a", "=", "1", ";">>,
     <<"a", "++", "=", "1", ";">>,
     <<"this", "=", "1", ";">>,
     <<"a", "or", "a", "=", "1", ";">>,
     <<"-", "a", "=", "1", ";">>,
     <<"a", "=", "b", "=", "1", ";">>,
     <<"a", "=", "(", "b", ")", "=", "1", ";">>,
     <<"{", "a", ".", "b", "=", "1", ";", "this", ".", "b", "=", "1", ";",
       "a", "(", ")", "=", "1", ";", "}", "print", "a", ";">>,
     <<"print", "a", "=", "a", ".", "b", "=", "(", "a", ")", "=", "1", ";">>,
     <<"1", "=", ";">>,
     <<"a", "=", ";">>}

ParseInputs ==
    UNION {[1..n -> ParseLexemes] : n \in 0..MaxTokens} \cup ParseLonger
        \cup AssignmentInputs

ParseInit ==
    /\ scanner = Scanned
    /\ prog = 0
    /\ tokens = <<>>
    /\ phase = "tokens"
    /\ Fresh

\* Parser::new(tokens)
ParserNewCall ==
    /\ phase = "tokens"
    /\ tokens' \in {ScanTokens(lexemes) : lexemes \in ParseInputs}
    /\ parser' = ParserNew
    /\ phase' = "parse"
    /\ UNCHANGED <<scanner, prog, statements, resolver, locals, heap, environment,
                   ctl, kont, out, ghost>>

\* parse() at the Eof token: Ok(statements).
ParseReturn ==
    /\ phase = "parse"
    /\ IsAtEnd(parser)
    /\ phase' = "parsed"
    /\ UNCHANGED <<scanner, prog, tokens, parser, statements, resolver, locals,
                   heap, environment, ctl, kont, out, ghost>>

ParseNext == ParserNewCall \/ ParseDeclaration \/ ParseReturn

\* The loop of parse() keeps running until it returns: weak fairness of
\* its return and of its turns, the latter written out, a turn being
\* enabled exactly when parse() is not at Eof.
ParseSpec ==
    /\ ParseInit /\ [][ParseNext]_vars
    /\ WF_vars(ParseReturn)
    /\ \/ []<>(phase # "parse" \/ IsAtEnd(parser))
       \/ []<><<ParseDeclaration>>_vars

---------------------------------------------------------------------------
(* The resolver run twice on one AST: parse, then Resolver::resolve_stmts  *)
(* from a fresh Resolver and Interpreter, and the same again from another  *)
(* fresh pair whose maps may iterate in another order.                     *)

ResolveInit ==
    /\ scanner = Scanned
    /\ prog \in 1..Len(Sources)
    /\ tokens = ScanTokens(Sources[prog])
    /\ phase = "parse"
    /\ parser = ParserNew
    /\ statements = <<>>
    /\ \E h \in Hashers :
          resolver = [scopes |-> <<>>, errors |-> <<>>, current_function |-> "None",
                      current_class |-> "None", tags |-> <<>>, panicked |-> FALSE,
                      next |-> 1, hasher |-> h]
    /\ locals = EmptyMap
    /\ heap = HeapNew
    /\ environment = GlobalsId
    /\ ctl = CIdle
    /\ kont = <<>>
    /\ out = <<>>
    /\ \E h \in Hashers :
          ghost = [found |-> EmptyMap,
                   last |-> Insert(EmptyMap, <<GlobalsId, "clock">>, CallableV(ClockId)),
                   assign |-> NoAssign,
                   rerun |-> [scopes |-> <<>>, errors |-> <<>>,
                              current_function |-> "None", current_class |-> "None",
                              locals |-> EmptyMap, tags |-> <<>>, found |-> EmptyMap,
                              panicked |-> FALSE, hasher |-> h, next |-> 1]]

\* resolve_stmts of the second run, one turn of its loop.
ResolveAgain ==
    /\ phase # "parse"
    /\ ~ghost.rerun.panicked
    /\ ghost.rerun.next <= Len(statements)
    /\ ghost' = [ghost EXCEPT !.rerun =
                    [ResolveStmt(statements[ghost.rerun.next], ghost.rerun)
                        EXCEPT !.next = @ + 1]]
    /\ UNCHANGED <<scanner, prog, tokens, phase, parser, statements, resolver, locals,
                   heap, environment, ctl, kont, out>>

ResolveNext ==
    \/ ParseDeclaration
    \/ ParseEnd
    \/ ResolveStatement
    \/ ResolvePanic
    \/ ResolveEnd
    \/ ResolveAgain

ResolveSpec == ResolveInit /\ [][ResolveNext]_vars

---------------------------------------------------------------------------
(* History of the bindings.  Wrote records the value a defining or         *)
(* assigning step gave the binding of `name` that environment e holds,     *)
(* under the activation e belongs to; Assigned records, for one call of    *)
(* Environment::assign, every binding it wrote (each map it walked, up to  *)
(* the first that held the name), the chain it walked and the maps before  *)
(* and after.                                                              *)

Wrote(g, envs, e, name, val) ==
    [g EXCEPT !.last = Insert(@, <<envs[e].act, name>>, val)]

Maps(envs, chain) == [i \in DOMAIN chain |-> envs[chain[i]].values]

Assigned(g, envs, start, name, val, res) ==
    LET chain == Chain(envs, start)
        written == {i \in DOMAIN chain :
                       \A j \in 1..(i - 1) : name \notin DOMAIN envs[chain[j]].values}
        keys == {<<envs[chain[i]].act, name>> : i \in written} IN
    [g EXCEPT !.last = [k \in DOMAIN @ \cup keys |-> IF k \in keys THEN val ELSE @[k]],
              !.assign = [name |-> name, ok |-> res.ok, chain |-> chain,
                          before |-> Maps(envs, chain),
                          after |-> Maps(res.envs, chain)]]

\* A closure that took a copy of the environment's map in place of the Rc:
\* the fault C2 excludes.
ClosureCopy(h, e) ==
    [h |-> [h EXCEPT !.envs = Append(@, @[e])], env |-> Len(h.envs) + 1]

\* The closure a new function value holds: the Rc of the environment.
Closure(h, e) == [h |-> h, env |-> e]

---------------------------------------------------------------------------
(* Interpreter::interpret and Interpreter::execute.                        *)

\* interpret's loop, and its return.
Interpret ==
    /\ Returning("Interpret")
    /\ IF ctl.mode = "ok" /\ Top.i <= Len(statements)
       THEN /\ ctl' = CExec(statements[Top.i])
            /\ kont' = Replace([Top EXCEPT !.i = @ + 1])
            /\ phase' = phase
       ELSE /\ ctl' = CHalt(ctl.err, "interpret")
            /\ kont' = <<>>
            /\ phase' = "done"
    /\ UNCHANGED <<static, heap, environment, out, ghost>>

\* run's fallback: evaluate returned.
Evaluate ==
    /\ Returning("Evaluate")
    /\ ctl' = CHalt(ctl.err, "evaluate")
    /\ kont' = <<>>
    /\ phase' = "done"
    /\ UNCHANGED <<static, heap, environment, out, ghost>>

\* A `?` that only passes the error on.
PlainFrames ==
    {"Expression", "Print", "Var", "If", "Return", "Assign", "Unary", "Binary",
     "Logical", "Ternary", "Call", "ClassCall", "Get", "Set"}

Propagate ==
    /\ phase = "run"
    /\ ctl.mode = "err"
    /\ Len(kont) > 0
    /\ Top.k \in PlainFrames
    /\ kont' = Pop
    /\ UNCHANGED <<static, phase, heap, environment, ctl, out, ghost>>

\* Stmt::Block: a new environment, then execute_block.
ExecBlock ==
    /\ Executing("Block")
    /\ heap' = [heap EXCEPT !.envs = FromEnclosing(@, environment,
                                                   <<"block", ctl.node.id>>)]
    /\ environment' = Len(heap.envs) + 1
    /\ kont' = Push(Frame("Block", ctl.node, 1, <<>>, environment, environment, 0))
    /\ ctl' = COk("", NoNode, 0)
    /\ UNCHANGED <<static, phase, out, ghost>>

\* execute_block leaving by `?` on an error, before the restore: the fault
\* C3 excludes.
ExecuteBlockUnwinding ==
    /\ Returning("Block")
    /\ IF ctl.mode = "ok" /\ Top.i <= Len(Top.node.stmts)
       THEN /\ ctl' = CExec(Top.node.stmts[Top.i])
            /\ kont' = Replace([Top EXCEPT !.i = @ + 1])
            /\ environment' = environment
       ELSE /\ ctl' = [ctl EXCEPT !.from = "Block", !.node = Top.node, !.at = Top.at]
            /\ kont' = Pop
            /\ environment' = IF ctl.mode = "ok" THEN Top.previous ELSE environment
    /\ UNCHANGED <<static, phase, heap, out, ghost>>

\* execute_block's try_for_each, and the restore after it.
ExecuteBlock ==
    /\ Returning("Block")
    /\ IF ctl.mode = "ok" /\ Top.i <= Len(Top.node.stmts)
       THEN /\ ctl' = CExec(Top.node.stmts[Top.i])
            /\ kont' = Replace([Top EXCEPT !.i = @ + 1])
            /\ environment' = environment
       ELSE /\ ctl' = [ctl EXCEPT !.from = "Block", !.node = Top.node, !.at = Top.at]
            /\ kont' = Pop
            /\ environment' = Top.previous
    /\ UNCHANGED <<static, phase, heap, out, ghost>>

ExecExpression ==
    /\ Executing("Expression")
    /\ kont' = Push(Frame("Expression", ctl.node, 0, <<>>, 0, environment, 0))
    /\ ctl' = CEval(ctl.node.expr)
    /\ UNCHANGED <<static, phase, heap, environment, out, ghost>>

ExpressionValue ==
    /\ Returning("Expression")
    /\ ctl.mode = "val"
    /\ kont' = Pop
    /\ ctl' = COk("Expression", Top.node, Top.at)
    /\ UNCHANGED <<static, phase, heap, environment, out, ghost>>

\* evaluate_function: the function closes over the current environment and
\* is defined in it.
ExecFunction ==
    /\ Executing("Function")
    /\ LET c == Closure(heap, environment)
           f == Len(c.h.funs) + 1
           fn == NewFunction(ctl.node.decl, c.env, FALSE, 0)
           envs1 == EnvDefine(c.h.envs, environment, ctl.node.decl.name, CallableV(f)) IN
       /\ heap' = [c.h EXCEPT !.funs = Append(@, fn), !.envs = envs1]
       /\ ghost' = Wrote(ghost, heap.envs, environment, ctl.node.decl.name,
                         CallableV(f))
    /\ ctl' = COk("Function", ctl.node, environment)
    /\ UNCHANGED <<static, phase, environment, kont, out>>

ExecIf ==
    /\ Executing("If")
    /\ kont' = Push(Frame("If", ctl.node, 0, <<>>, 0, environment, 0))
    /\ ctl' = CEval(ctl.node.condition)
    /\ UNCHANGED <<static, phase, heap, environment, out, ghost>>

\* evaluate_if_statement once the condition has its value.
IfCondition ==
    /\ Returning("If")
    /\ ctl.mode = "val"
    /\ kont' = Pop
    /\ ctl' = IF IsTruthy(ctl.val) THEN CExec(Top.node.then_branch)
              ELSE IF Top.node.else_branch.k # "None"
              THEN CExec(Top.node.else_branch)
              ELSE COk("If", Top.node, Top.at)
    /\ UNCHANGED <<static, phase, heap, environment, out, ghost>>

ExecPrint ==
    /\ Executing("Print")
    /\ kont' = Push(Frame("Print", ctl.node, 0, <<>>, 0, environment, 0))
    /\ ctl' = CEval(ctl.node.expr)
    /\ UNCHANGED <<static, phase, heap, environment, out, ghost>>

PrintValue ==
    /\ Returning("Print")
    /\ ctl.mode = "val"
    /\ out' = Append(out, Display(heap, ctl.val))
    /\ kont' = Pop
    /\ ctl' = COk("Print", Top.node, Top.at)
    /\ UNCHANGED <<static, phase, heap, environment, ghost>>

\* Stmt::Return: the value, or Nil, leaves as a ReturnException.
ExecReturn ==
    /\ Executing("Return")
    /\ IF ctl.node.value.k # "None"
       THEN /\ kont' = Push(Frame("Return", ctl.node, 0, <<>>, 0, environment, 0))
            /\ ctl' = CEval(ctl.node.value)
       ELSE /\ kont' = kont
            /\ ctl' = CErr("ReturnException", NilV, "Return", ctl.node, environment)
    /\ UNCHANGED <<static, phase, heap, environment, out, ghost>>

ReturnValue ==
    /\ Returning("Return")
    /\ ctl.mode = "val"
    /\ kont' = Pop
    /\ ctl' = CErr("ReturnException", ctl.val, "Return", Top.node, Top.at)
    /\ UNCHANGED <<static, phase, heap, environment, out, ghost>>

\* evaluate_var_decl: the initializer's value, or Nil, is defined in the
\* current environment.
ExecVar ==
    /\ Executing("Var")
    /\ IF ctl.node.initializer.k # "None"
       THEN /\ kont' = Push(Frame("Var", ctl.node, 0, <<>>, 0, environment, 0))
            /\ ctl' = CEval(ctl.node.initializer)
            /\ UNCHANGED <<heap, ghost>>
       ELSE /\ kont' = kont
            /\ ctl' = COk("Var", ctl.node, environment)
            /\ heap' = [heap EXCEPT !.envs = EnvDefine(@, environment,
                                                       ctl.node.name, NilV)]
            /\ ghost' = Wrote(ghost, heap.envs, environment, ctl.node.name, NilV)
    /\ UNCHANGED <<static, phase, environment, out>>

VarValue ==
    /\ Returning("Var")
    /\ ctl.mode = "val"
    /\ kont' = Pop
    /\ ctl' = COk("Var", Top.node, Top.at)
    /\ heap' = [heap EXCEPT !.envs = EnvDefine(@, environment, Top.node.name, ctl.val)]
    /\ ghost' = Wrote(ghost, heap.envs, environment, Top.node.name, ctl.val)
    /\ UNCHANGED <<static, phase, environment, out>>

\* evaluate_while: the condition first.
ExecWhile ==
    /\ Executing("While")
    /\ kont' = Push(Frame("While", ctl.node, 0, <<>>, 0, environment, 0))
    /\ ctl' = CEval(ctl.node.condition)
    /\ UNCHANGED <<static, phase, heap, environment, out, ghost>>

\* The condition came back: run the body, leave the loop, or pass the
\* condition's error on.
WhileCondition ==
    /\ Returning("While")
    /\ Top.i = 0
    /\ IF ctl.mode = "val" /\ IsTruthy(ctl.val)
       THEN /\ kont' = Replace([Top EXCEPT !.i = 1])
            /\ ctl' = CExec(Top.node.body)
       ELSE /\ kont' = Pop
            /\ ctl' = IF ctl.mode = "val" THEN COk("While", Top.node, Top.at)
                      ELSE ctl
    /\ UNCHANGED <<static, phase, heap, environment, out, ghost>>

\* The body came back: BreakException ends the loop, any other error
\* leaves it, Ok goes round.
WhileBody ==
    /\ Returning("While")
    /\ Top.i = 1
    /\ IF ctl.mode = "ok"
       THEN /\ kont' = Replace([Top EXCEPT !.i = 0])
            /\ ctl' = CEval(Top.node.condition)
       ELSE /\ kont' = Pop
            /\ ctl' = IF ctl.err = "BreakException"
                      THEN COk("While", Top.node, Top.at)
                      ELSE ctl
    /\ UNCHANGED <<static, phase, heap, environment, out, ghost>>

\* evaluate_break.
ExecBreak ==
    /\ Executing("Break")
    /\ ctl' = CErr("BreakException", NilV, "Break", ctl.node, environment)
    /\ UNCHANGED <<static, phase, heap, environment, kont, out, ghost>>

---------------------------------------------------------------------------
(* The environments on their own: get_at and assign_at called on a chain   *)
(* of scopes.  Environment 1 is the innermost; ghost.assign records the    *)
(* last call with the maps of the chain before and after it.               *)

\* The longest chain, and the largest distance asked for.
MaxChain == 3

EnvNames == {"x"}
EnvValues == {NumV(1), NumV(2)}

\* Every map from some of the names to the values.
EnvMaps == UNION {[names -> EnvValues] : names \in SUBSET EnvNames}

EnvChains ==
    UNION {{[i \in 1..n |-> [values |-> maps[i],
                             enclosing |-> IF i < n THEN i + 1 ELSE 0,
                             tag |-> <<"block", i>>, act |-> i]] :
               maps \in [1..n -> EnvMaps]} : n \in 1..MaxChain}

EnvInit ==
    /\ scanner = Scanned
    /\ prog = 0
    /\ tokens = <<>>
    /\ phase = "env"
    /\ parser = ParserNew
    /\ statements = <<>>
    /\ resolver = [scopes |-> <<>>, errors |-> <<>>, current_function |-> "None",
                   current_class |-> "None", tags |-> <<>>, panicked |-> FALSE,
                   next |-> 1, hasher |-> 0]
    /\ locals = EmptyMap
    /\ heap \in {[envs |-> chain, funs |-> <<>>, classes |-> <<>>, insts |-> <<>>] :
                    chain \in EnvChains}
    /\ environment = 1
    /\ ctl = CIdle
    /\ kont = <<>>
    /\ out = <<>>
    /\ ghost = [found |-> EmptyMap, last |-> EmptyMap, assign |-> NoAssign, rerun |-> NoRerun]

EnvCall(op, distance, name, ok, chain, before, after) ==
    [op |-> op, distance |-> distance, name |-> name, ok |-> ok,
     chain |-> chain, before |-> before, after |-> after]

\* Environment::get_at(environment, distance, name)
GetAtCall ==
    /\ phase = "env"
    /\ \E distance \in 0..MaxChain, name \in EnvNames :
          LET r == GetAt(heap.envs, environment, distance, name)
              chain == Chain(heap.envs, environment) IN
          /\ ctl' = IF r.ok THEN CVal(r.val, "get_at", NoNode, environment)
                    ELSE CErr(r.err, NilV, "get_at", NoNode, environment)
          /\ ghost' = [ghost EXCEPT !.assign =
                          EnvCall("get_at", distance, name, r.ok, chain,
                                  Maps(heap.envs, chain), Maps(heap.envs, chain))]
    /\ UNCHANGED <<static, phase, heap, environment, kont, out>>

\* Environment::assign_at(environment, distance, name, val)
AssignAtCall ==
    /\ phase = "env"
    /\ \E distance \in 0..MaxChain, name \in EnvNames, val \in EnvValues :
          LET r == AssignAt(heap.envs, environment, distance, name, val)
              chain == Chain(heap.envs, environment) IN
          /\ heap' = [heap EXCEPT !.envs = r.envs]
          /\ ctl' = IF r.ok THEN CVal(val, "assign_at", NoNode, environment)
                    ELSE CErr("UndefinedVariable", NilV, "assign_at", NoNode,
                              environment)
          /\ ghost' = [ghost EXCEPT !.assign =
                          EnvCall("assign_at", distance, name, r.ok, chain,
                                  Maps(heap.envs, chain), Maps(r.envs, chain))]
    /\ UNCHANGED <<static, phase, environment, kont, out>>

EnvNext == GetAtCall \/ AssignAtCall

EnvSpec == EnvInit /\ [][EnvNext]_vars

---------------------------------------------------------------------------
(* Interpreter::evaluate.                                                  *)

EvalLiteral ==
    /\ Evaluating("Literal")
    /\ ctl' = CVal(ctl.node.value, "Literal", ctl.node, environment)
    /\ UNCHANGED <<static, phase, heap, environment, kont, out, ghost>>

\* Expr::Grouping: evaluate the inner expression in its place.
EvalGrouping ==
    /\ Evaluating("Grouping")
    /\ ctl' = CEval(ctl.node.expr)
    /\ UNCHANGED <<static, phase, heap, environment, kont, out, ghost>>

\* A lookup that walks the current chain when the node has no distance:
\* the fault C10 excludes.
LookUpDynamic(envs, e, node) ==
    IF node.id \in DOMAIN locals
    THEN GetAt(envs, e, locals[node.id], node.name)
    ELSE EnvGet(envs, e, node.name)

\* The Variable and This arms: get_at with the recorded distance, or the
\* globals when the node has none.
LookUpVariable(envs, e, node) ==
    IF node.id \in DOMAIN locals
    THEN GetAt(envs, e, locals[node.id], node.name)
    ELSE EnvGet(envs, GlobalsId, node.name)

EvalVariable ==
    /\ Evaluating("Variable")
    /\ ctl' = CResult(LookUpVariable(heap.envs, environment, ctl.node),
                      "Variable", ctl.node, environment)
    /\ UNCHANGED <<static, phase, heap, environment, kont, out, ghost>>

EvalThis ==
    /\ Evaluating("This")
    /\ ctl' = CResult(LookUpVariable(heap.envs, environment, ctl.node),
                      "This", ctl.node, environment)
    /\ UNCHANGED <<static, phase, heap, environment, kont, out, ghost>>

\* evaluate_lambda: an unnamed function over the current environment.
EvalLambda ==
    /\ Evaluating("Lambda")
    /\ LET c == Closure(heap, environment)
           fn == NewFunction(FunctionDecl("", ctl.node.params, ctl.node.body,
                                          ctl.node.id), c.env, FALSE, 0) IN
       /\ heap' = [c.h EXCEPT !.funs = Append(@, fn)]
       /\ ctl' = CVal(CallableV(Len(c.h.funs) + 1), "Lambda", ctl.node, environment)
    /\ UNCHANGED <<static, phase, environment, kont, out, ghost>>

\* evaluate_mutation: the operand's name is read and assigned through the
\* current environment's chain.
EvalMutate ==
    /\ Evaluating("Mutate")
    /\ LET name == ctl.node.operand.name
           current_value == EnvGet(heap.envs, environment, name)
           new_val == IF ctl.node.operator = "Increment"
                      THEN NumV(current_value.val.n + 1)
                      ELSE NumV(current_value.val.n - 1)
           res == EnvAssign(heap.envs, environment, name, new_val) IN
       CASE ctl.node.operand.k # "Variable" ->
               /\ ctl' = CErr("MutationError", NilV, "Mutate", ctl.node, environment)
               /\ UNCHANGED <<heap, ghost>>
         [] ctl.node.operand.k = "Variable" /\ ~current_value.ok ->
               /\ ctl' = CErr("UndefinedVariable", NilV, "Mutate", ctl.node,
                              environment)
               /\ UNCHANGED <<heap, ghost>>
         [] ctl.node.operand.k = "Variable" /\ current_value.ok
              /\ current_value.val.t # "Number" ->
               /\ ctl' = CErr("MutationError", NilV, "Mutate", ctl.node, environment)
               /\ UNCHANGED <<heap, ghost>>
         [] OTHER ->
               /\ heap' = [heap EXCEPT !.envs = res.envs]
               /\ ghost' = Assigned(ghost, heap.envs, environment, name, new_val, res)
               /\ ctl' = CVal(IF ctl.node.postfix THEN current_value.val ELSE new_val,
                              "Mutate", ctl.node, environment)
    /\ UNCHANGED <<static, phase, environment, kont, out>>

EvalAssign ==
    /\ Evaluating("Assign")
    /\ kont' = Push(Frame("Assign", ctl.node, 0, <<>>, 0, environment, 0))
    /\ ctl' = CEval(ctl.node.value)
    /\ UNCHANGED <<static, phase, heap, environment, out, ghost>>

\* evaluate_assignment once the value is there: assign_at with the recorded
\* distance, or assign on the globals.
AssignValue ==
    /\ Returning("Assign")
    /\ ctl.mode = "val"
    /\ LET node == Top.node
           start == IF node.id \in DOMAIN locals
                    THEN Ancestor(heap.envs, environment, locals[node.id])
                    ELSE GlobalsId
           res == IF node.id \in DOMAIN locals
                  THEN AssignAt(heap.envs, environment, locals[node.id],
                                node.name, ctl.val)
                  ELSE EnvAssign(heap.envs, GlobalsId, node.name, ctl.val) IN
       /\ heap' = [heap EXCEPT !.envs = res.envs]
       /\ ghost' = IF start # 0
                   THEN Assigned(ghost, heap.envs, start, node.name, ctl.val, res)
                   ELSE ghost
       /\ ctl' = IF res.ok THEN CVal(ctl.val, "Assign", node, Top.at)
                 ELSE CErr("UndefinedVariable", NilV, "Assign", node, Top.at)
    /\ kont' = Pop
    /\ UNCHANGED <<static, phase, environment, out>>

EvalUnary ==
    /\ Evaluating("Unary")
    /\ kont' = Push(Frame("Unary", ctl.node, 0, <<>>, 0, environment, 0))
    /\ ctl' = CEval(ctl.node.right)
    /\ UNCHANGED <<static, phase, heap, environment, out, ghost>>

UnaryValue ==
    /\ Returning("Unary")
    /\ ctl.mode = "val"
    /\ ctl' = CResult(UnaryOp(Top.node.operator, ctl.val), "Unary", Top.node, Top.at)
    /\ kont' = Pop
    /\ UNCHANGED <<static, phase, heap, environment, out, ghost>>

EvalBinary ==
    /\ Evaluating("Binary")
    /\ kont' = Push(Frame("Binary", ctl.node, 1, <<>>, 0, environment, 0))
    /\ ctl' = CEval(ctl.node.left)
    /\ UNCHANGED <<static, phase, heap, environment, out, ghost>>

\* evaluate_binary: left, then right, then the operator; the comma
\* evaluates left and right once more and yields the second right.
BinaryOperand ==
    /\ Returning("Binary")
    /\ ctl.mode = "val"
    /\ CASE Top.i = 1 ->
               /\ kont' = Replace([Top EXCEPT !.i = 2, !.vals = <<ctl.val>>])
               /\ ctl' = CEval(Top.node.right)
         [] Top.i = 2 /\ Top.node.operator = "Comma" ->
               /\ kont' = Replace([Top EXCEPT !.i = 3])
               /\ ctl' = CEval(Top.node.left)
         [] Top.i = 2 /\ Top.node.operator # "Comma" ->
               /\ kont' = Pop
               /\ ctl' = CResult(BinaryOp(Top.node.operator, Top.vals[1], ctl.val),
                                 "Binary", Top.node, Top.at)
         [] Top.i = 3 ->
               /\ kont' = Pop
               /\ ctl' = CEval(Top.node.right)
    /\ UNCHANGED <<static, phase, heap, environment, out, ghost>>

EvalLogical ==
    /\ Evaluating("Logical")
    /\ kont' = Push(Frame("Logical", ctl.node, 0, <<>>, 0, environment, 0))
    /\ ctl' = CEval(ctl.node.left)
    /\ UNCHANGED <<static, phase, heap, environment, out, ghost>>

\* evaluate_logical evaluating the right operand whatever the left is: the
\* fault C14 excludes.
LogicalLeftEager ==
    /\ Returning("Logical")
    /\ ctl.mode = "val"
    /\ kont' = Pop
    /\ ctl' = CEval(Top.node.right)
    /\ UNCHANGED <<static, phase, heap, environment, out, ghost>>

\* evaluate_logical: the left value decides whether the right is evaluated.
LogicalLeft ==
    /\ Returning("Logical")
    /\ ctl.mode = "val"
    /\ kont' = Pop
    /\ ctl' = IF (Top.node.operator = "Or") = IsTruthy(ctl.val)
              THEN CVal(ctl.val, "Logical", Top.node, Top.at)
              ELSE CEval(Top.node.right)
    /\ UNCHANGED <<static, phase, heap, environment, out, ghost>>

EvalTernary ==
    /\ Evaluating("Ternary")
    /\ kont' = Push(Frame("Ternary", ctl.node, 0, <<>>, 0, environment, 0))
    /\ ctl' = CEval(ctl.node.condition)
    /\ UNCHANGED <<static, phase, heap, environment, out, ghost>>

TernaryCondition ==
    /\ Returning("Ternary")
    /\ ctl.mode = "val"
    /\ kont' = Pop
    /\ ctl' = IF IsTruthy(ctl.val) THEN CEval(Top.node.true_expr)
              ELSE CEval(Top.node.false_expr)
    /\ UNCHANGED <<static, phase, heap, environment, out, ghost>>

EvalGet ==
    /\ Evaluating("Get")
    /\ kont' = Push(Frame("Get", ctl.node, 0, <<>>, 0, environment, 0))
    /\ ctl' = CEval(ctl.node.object)
    /\ UNCHANGED <<static, phase, heap, environment, out, ghost>>

\* evaluate_get: LoxInstance::get on an instance, a TypeError on the rest.
GetObject ==
    /\ Returning("Get")
    /\ ctl.mode = "val"
    /\ kont' = Pop
    /\ IF ctl.val.t = "Instance"
       THEN LET g == InstanceGet(heap, ctl.val.n, Top.node.name) IN
            /\ heap' = g.h
            /\ ctl' = CResult(g.r, "Get", Top.node, Top.at)
       ELSE /\ heap' = heap
            /\ ctl' = CErr("TypeError", NilV, "Get", Top.node, Top.at)
    /\ UNCHANGED <<static, phase, environment, out, ghost>>

EvalSet ==
    /\ Evaluating("Set")
    /\ kont' = Push(Frame("Set", ctl.node, 1, <<>>, 0, environment, 0))
    /\ ctl' = CEval(ctl.node.object)
    /\ UNCHANGED <<static, phase, heap, environment, out, ghost>>

\* evaluate_set: the object first; the value only for an instance.
SetObject ==
    /\ Returning("Set")
    /\ ctl.mode = "val"
    /\ Top.i = 1
    /\ IF ctl.val.t = "Instance"
       THEN /\ kont' = Replace([Top EXCEPT !.i = 2, !.f = ctl.val.n])
            /\ ctl' = CEval(Top.node.value)
       ELSE /\ kont' = Pop
            /\ ctl' = CErr("TypeError", NilV, "Set", Top.node, Top.at)
    /\ UNCHANGED <<static, phase, heap, environment, out, ghost>>

SetValue ==
    /\ Returning("Set")
    /\ ctl.mode = "val"
    /\ Top.i = 2
    /\ heap' = InstanceSet(heap, Top.f, Top.node.name, ctl.val)
    /\ kont' = Pop
    /\ ctl' = CVal(ctl.val, "Set", Top.node, Top.at)
    /\ UNCHANGED <<static, phase, environment, out, ghost>>

---------------------------------------------------------------------------
(* evaluate_class.                                                         *)

\* The method map: each method closes over env; a later method of the same
\* name replaces the earlier one.
RECURSIVE MethodMap(_, _, _, _, _, _)
MethodMap(funs, methods, i, env, owner, acc) ==
    IF i > Len(methods) THEN [funs |-> funs, methods |-> acc]
    ELSE LET function == IF methods[i].name = "init"
                         THEN NewInitializer(methods[i], env, owner)
                         ELSE FunctionNew(methods[i], env, owner) IN
         MethodMap(Append(funs, function), methods, i + 1, env, owner,
                   Insert(acc, methods[i].name, Len(funs) + 1))

\* LoxClass::new over the methods, then the assign of the class to its
\* name from the current environment.  The result carries the heap, the
\* history and whether the assign succeeded.
DeclareClass(h, g, env, stmt, superclass) ==
    LET m == MethodMap(h.funs, stmt.methods, 1, env, stmt.id, EmptyMap)
        klass == [name |-> stmt.name, superclass |-> superclass,
                  methods |-> m.methods, id |-> stmt.id, at |-> env]
        value == ClassV(Len(h.classes) + 1)
        res == EnvAssign(h.envs, env, stmt.name, value) IN
    [h |-> [h EXCEPT !.funs = m.funs, !.classes = Append(@, klass),
                     !.envs = res.envs],
     g |-> Assigned(g, h.envs, env, stmt.name, value, res),
     ok |-> res.ok]

\* The name is defined as Nil; then the superclass expression, if any.
ExecClass ==
    /\ Executing("Class")
    /\ LET envs1 == EnvDefine(heap.envs, environment, ctl.node.name, NilV)
           g1 == Wrote(ghost, heap.envs, environment, ctl.node.name, NilV)
           d == DeclareClass([heap EXCEPT !.envs = envs1], g1, environment,
                             ctl.node, 0) IN
       IF ctl.node.superclass.k # "None"
       THEN /\ heap' = [heap EXCEPT !.envs = envs1]
            /\ ghost' = g1
            /\ kont' = Push(Frame("Class", ctl.node, 0, <<>>, environment,
                                  environment, 0))
            /\ ctl' = CEval(ctl.node.superclass)
       ELSE /\ heap' = d.h
            /\ ghost' = d.g
            /\ kont' = kont
            /\ ctl' = IF d.ok THEN COk("Class", ctl.node, environment)
                      ELSE CErr("UndefinedVariable", NilV, "Class", ctl.node,
                                environment)
    /\ UNCHANGED <<static, phase, environment, out>>

\* The superclass expression came back: an error or a value that is no
\* class leaves at once; a class gets an environment defining `super`, in
\* which the methods close and from which the class is assigned, and which
\* is left again for its enclosing one.
ClassSuperclass ==
    /\ Returning("Class")
    /\ kont' = Pop
    /\ LET envs1 == FromEnclosing(heap.envs, environment, <<"super", Top.node.id>>)
           new_env == Len(envs1)
           envs2 == EnvDefine(envs1, new_env, "super", ctl.val)
           g1 == Wrote(ghost, envs1, new_env, "super", ctl.val)
           d == DeclareClass([heap EXCEPT !.envs = envs2], g1, new_env, Top.node,
                             ctl.val.n) IN
       CASE ctl.mode = "err" ->
               /\ ctl' = [ctl EXCEPT !.from = "Class", !.node = Top.node,
                                     !.at = Top.at]
               /\ UNCHANGED <<heap, ghost, environment>>
         [] ctl.mode = "val" /\ ctl.val.t # "Class" ->
               /\ ctl' = CErr("TypeError", NilV, "Class", Top.node, Top.at)
               /\ UNCHANGED <<heap, ghost, environment>>
         [] ctl.mode = "val" /\ ctl.val.t = "Class" ->
               /\ heap' = d.h
               /\ ghost' = d.g
               /\ environment' = IF d.ok /\ d.h.envs[new_env].enclosing # 0
                                 THEN d.h.envs[new_env].enclosing
                                 ELSE new_env
               /\ ctl' = IF d.ok THEN COk("Class", Top.node, Top.at)
                         ELSE CErr("UndefinedVariable", NilV, "Class", Top.node,
                                   Top.at)
    /\ UNCHANGED <<static, phase, out>>

---------------------------------------------------------------------------
(* evaluate_call, Function::call, LoxClass::call, Clock::call.             *)

EvalCall ==
    /\ Evaluating("Call")
    /\ kont' = Push(Frame("Call", ctl.node, 0, <<>>, 0, environment, 0))
    /\ ctl' = CEval(ctl.node.callee)
    /\ UNCHANGED <<static, phase, heap, environment, out, ghost>>

\* The callee or an argument came back and an argument is still to come.
CallArgument ==
    /\ Returning("Call")
    /\ ctl.mode = "val"
    /\ Len(Top.vals) < Len(Top.node.args)
    /\ kont' = Replace([Top EXCEPT !.vals = Append(@, ctl.val)])
    /\ ctl' = CEval(Top.node.args[Len(Top.vals) + 1])
    /\ UNCHANGED <<static, phase, heap, environment, out, ghost>>

\* The callee and the arguments once the last of them is there.
AllEvaluated ==
    /\ Returning("Call")
    /\ ctl.mode = "val"
    /\ Len(Top.vals) = Len(Top.node.args)

Callee == Append(Top.vals, ctl.val)[1]
Arguments == SubSeq(Append(Top.vals, ctl.val), 2, Len(Top.vals) + 1)

RECURSIVE DefineParams(_, _, _, _, _)
DefineParams(envs, env, params, args, i) ==
    IF i > Len(params) \/ i > Len(args) THEN envs
    ELSE DefineParams(EnvDefine(envs, env, params[i], args[i]), env, params,
                      args, i + 1)

RECURSIVE WroteParams(_, _, _, _, _, _)
WroteParams(g, envs, env, params, args, i) ==
    IF i > Len(params) \/ i > Len(args) THEN g
    ELSE WroteParams(Wrote(g, envs, env, params[i], args[i]), envs, env, params,
                     args, i + 1)

\* A call that runs in the closure's own environment, with no environment
\* of its own: the fault C30 excludes.
FunctionCallInClosure(h, g, f, args) ==
    LET env == h.funs[f].closure
        params == h.funs[f].declaration.params IN
    [h |-> [h EXCEPT !.envs = DefineParams(h.envs, env, params, args, 1)],
     g |-> WroteParams(g, h.envs, env, params, args, 1),
     env |-> env]

\* Function::call up to the body: an environment around the closure with
\* the parameters defined.
FunctionCall(h, g, f, args) ==
    LET envs1 == FromEnclosing(h.envs, h.funs[f].closure,
                               <<"fn", h.funs[f].declaration.id>>)
        env == Len(envs1)
        params == h.funs[f].declaration.params IN
    [h |-> [h EXCEPT !.envs = DefineParams(envs1, env, params, args, 1)],
     g |-> WroteParams(g, envs1, env, params, args, 1),
     env |-> env]

\* Value::Callable, a Function.
CallFunction ==
    /\ AllEvaluated
    /\ Callee.t = "Callable"
    /\ ~heap.funs[Callee.n].native
    /\ IF Len(Arguments) # Arity(heap, Callee.n)
       THEN /\ kont' = Pop
            /\ ctl' = CErr("FunctionError", NilV, "Call", Top.node, Top.at)
            /\ UNCHANGED <<heap, ghost, environment>>
       ELSE LET c == FunctionCall(heap, ghost, Callee.n, Arguments) IN
            /\ heap' = c.h
            /\ ghost' = c.g
            /\ environment' = c.env
            /\ kont' = Replace(Frame("Function", Top.node, 1, <<>>, environment,
                                     Top.at, Callee.n))
            /\ ctl' = COk("", NoNode, 0)
    /\ UNCHANGED <<static, phase, out>>

\* Value::Callable, the native clock: some number of seconds.
MaxSeconds == 1

CallClock ==
    /\ AllEvaluated
    /\ Callee.t = "Callable"
    /\ heap.funs[Callee.n].native
    /\ kont' = Pop
    /\ \E seconds \in 0..MaxSeconds :
          ctl' = IF Len(Arguments) # 0
                 THEN CErr("FunctionError", NilV, "Call", Top.node, Top.at)
                 ELSE [CVal(NumV(seconds), "Clock", Top.node, Top.at)
                          EXCEPT !.f = Callee.n]
    /\ UNCHANGED <<static, phase, heap, environment, out, ghost>>

\* Value::Class: LoxClass::call makes the instance and, when the class
\* finds an init, binds it to the instance and calls it.
CallClass ==
    /\ AllEvaluated
    /\ Callee.t = "Class"
    /\ LET instance == Len(heap.insts) + 1
           h1 == [heap EXCEPT !.insts = Append(@, [klass |-> Callee.n,
                                                   fields |-> EmptyMap])]
           initializer == FindMethod(heap.classes, Callee.n, "init")
           b == Bind(h1, initializer, instance)
           c == FunctionCall(b.h, ghost, b.f, Arguments) IN
       CASE Len(Arguments) # ClassArity(heap, Callee.n) ->
               /\ kont' = Pop
               /\ ctl' = CErr("FunctionError", NilV, "Call", Top.node, Top.at)
               /\ UNCHANGED <<heap, ghost, environment>>
         [] Len(Arguments) = ClassArity(heap, Callee.n) /\ initializer = 0 ->
               /\ kont' = Pop
               /\ ctl' = [CVal(InstanceV(instance), "ClassCall", Top.node, Top.at)
                             EXCEPT !.f = instance]
               /\ heap' = h1
               /\ UNCHANGED <<ghost, environment>>
         [] Len(Arguments) = ClassArity(heap, Callee.n) /\ initializer # 0 ->
               /\ kont' = Append(Replace(Frame("ClassCall", Top.node, 0, <<>>, 0,
                                               Top.at, instance)),
                                 Frame("Function", Top.node, 1, <<>>, environment,
                                       Top.at, b.f))
               /\ ctl' = COk("", NoNode, 0)
               /\ heap' = c.h
               /\ ghost' = c.g
               /\ environment' = c.env
    /\ UNCHANGED <<static, phase, out>>

\* Any other callee.
CallOther ==
    /\ AllEvaluated
    /\ Callee.t \notin {"Callable", "Class"}
    /\ kont' = Pop
    /\ ctl' = CErr("FunctionError", NilV, "Call", Top.node, Top.at)
    /\ UNCHANGED <<static, phase, heap, environment, out, ghost>>

\* A call that treats an initializer as any function: the fault C6 excludes.
BodyResultPlain(envs, function, mode, err, val) ==
    CASE mode = "err" /\ err = "ReturnException" -> ROk(val)
      [] mode = "err" /\ err # "ReturnException" -> RErr(err)
      [] OTHER -> ROk(NilV)

\* What Function::call makes of its body's outcome: a ReturnException
\* carries the result, any other error passes, and an initializer yields
\* the `this` of its closure in place of a return or of Nil.
BodyResult(envs, function, mode, err, val) ==
    LET this == GetAtString(envs, function.closure, 0, "this")
        body_result ==
            CASE mode = "err" /\ err = "ReturnException" ->
                    (IF function.is_initializer THEN this ELSE ROk(val))
              [] mode = "err" /\ err # "ReturnException" -> RErr(err)
              [] OTHER -> ROk(NilV) IN
    IF function.is_initializer /\ body_result.ok /\ body_result.val = NilV
    THEN this ELSE body_result

\* Function::call's loop over the body, and the restore after it.
FunctionBody ==
    /\ Returning("Function")
    /\ LET function == heap.funs[Top.f] IN
       IF ctl.mode = "ok" /\ Top.i <= Len(function.declaration.body)
       THEN /\ ctl' = CExec(function.declaration.body[Top.i])
            /\ kont' = Replace([Top EXCEPT !.i = @ + 1])
            /\ environment' = environment
       ELSE /\ ctl' = [CResult(BodyResult(heap.envs, function, ctl.mode, ctl.err,
                                          ctl.val),
                               "Call", Top.node, Top.at) EXCEPT !.f = Top.f]
            /\ kont' = Pop
            /\ environment' = Top.previous
    /\ UNCHANGED <<static, phase, heap, out, ghost>>

\* LoxClass::call after the initializer returned without error.
ClassCallValue ==
    /\ Returning("ClassCall")
    /\ ctl.mode = "val"
    /\ kont' = Pop
    /\ ctl' = [CVal(InstanceV(Top.f), "ClassCall", Top.node, Top.at)
                  EXCEPT !.f = Top.f]
    /\ UNCHANGED <<static, phase, heap, environment, out, ghost>>

---------------------------------------------------------------------------
(* The claims.                                                             *)

Done(source) == phase = "done" /\ Sources[prog] = source

\* The node of the Variable, This or Assign arm that is about to use the
\* distance `locals` holds for it: the first two when evaluate reaches
\* them, Assign when its value is there.
UsesDistance ==
    /\ phase = "run"
    /\ \/ ctl.mode = "eval" /\ ctl.node.k \in {"Variable", "This"}
       \/ Returning("Assign") /\ ctl.mode = "val"

UseNode == IF ctl.mode = "eval" THEN ctl.node ELSE Top.node

\* C1: whenever a Variable, This or Assign node with a recorded depth d is
\* evaluated, d enclosing links from the current environment lead to an
\* environment, that environment was created for the lexical scope in which
\* the resolver found the name, and it binds the name.
C1_DepthReachesScope ==
    (UsesDistance /\ UseNode.id \in DOMAIN locals) =>
        LET e == Ancestor(heap.envs, environment, locals[UseNode.id]) IN
        /\ e # 0
        /\ heap.envs[e].tag = ghost.found[UseNode.id]
        /\ UseNode.name \in DOMAIN heap.envs[e].values

\* A read at depth 3: from a method's activation through the `this` and
\* `super` environments to the block that declares the variable.
C1_Witness ==
    /\ UsesDistance
    /\ ctl.mode = "eval"
    /\ ctl.node.k = "Variable"
    /\ ctl.node.id \in DOMAIN locals
    /\ locals[ctl.node.id] = 3
    /\ LET e == Ancestor(heap.envs, environment, 3) IN
       /\ e # 0
       /\ heap.envs[e].tag[1] = "block"
       /\ heap.envs[heap.envs[environment].enclosing].tag[1] = "this"
       /\ ctl.node.name \in DOMAIN heap.envs[e].values

\* The environment whose binding a Variable node reads.
Binding(node) ==
    Holder(heap.envs,
           IF node.id \in DOMAIN locals
           THEN Ancestor(heap.envs, environment, locals[node.id])
           ELSE GlobalsId,
           node.name)

\* C2: a read of a variable yields the value most recently defined or
\* assigned for the binding it reads, whichever closure or scope wrote it
\* and whether or not the block or call that made the binding has exited;
\* makeCounter's three calls print 1, 2, 3.
C2_ClosuresShareBindings ==
    /\ (phase = "run" /\ ctl.mode = "val" /\ ctl.from = "Variable") =>
          LET b == Binding(ctl.node) IN
          /\ b # 0
          /\ <<heap.envs[b].act, ctl.node.name>> \in DOMAIN ghost.last
          /\ ctl.val = ghost.last[<<heap.envs[b].act, ctl.node.name>>]
    /\ Done(SrcMakeCounter) => out = <<"1", "2", "3">>

\* The second call of the returned function reads i = 2 from the
\* environment of a makeCounter call that has returned.
C2_Witness ==
    /\ Sources[prog] = SrcMakeCounter
    /\ phase = "run"
    /\ ctl.mode = "val"
    /\ ctl.from = "Variable"
    /\ ctl.node.name = "i"
    /\ ctl.val = NumV(2)
    /\ out = <<"1">>
    /\ \A i \in DOMAIN kont : kont[i].k = "Function" =>
          heap.funs[kont[i].f].declaration.name # "makeCounter"

\* C3: when a block, a call or a class declaration hands its result back,
\* whether Ok, a ReturnException, a BreakException or a runtime error, the
\* current environment is the one that was current when it started.
C3_EnvironmentRestored ==
    (/\ phase = "run"
     /\ ctl.mode \in {"ok", "val", "err"}
     /\ ctl.from \in {"Block", "Call", "ClassCall", "Class"}) =>
        environment = ctl.at

\* A block nested in a function body left by a runtime error.
C3_Witness ==
    /\ phase = "run"
    /\ ctl.mode = "err"
    /\ ctl.from = "Block"
    /\ ctl.err \notin {"ReturnException", "BreakException"}
    /\ Len(kont) > 0
    /\ Top.k = "Function"
    /\ environment = ctl.at
    /\ environment # GlobalsId

\* C4: when a program parsed and resolved without errors, interpret does
\* not return BreakException or ReturnException.
C4_NoPseudoErrorAtTopLevel ==
    (/\ phase = "done"
     /\ ctl.from = "interpret"
     /\ parser.dropped = <<>>
     /\ resolver.errors = <<>>) =>
        ctl.err \notin {"BreakException", "ReturnException"}

\* The first scope of the walked chain that held the name (0: none).
FirstHolder(a) ==
    IF \E i \in DOMAIN a.chain : a.name \in DOMAIN a.before[i]
    THEN CHOOSE i \in DOMAIN a.chain :
            /\ a.name \in DOMAIN a.before[i]
            /\ \A j \in 1..(i - 1) : a.name \notin DOMAIN a.before[j]
    ELSE 0

\* C5: a call of Environment::assign adds the name to no scope; when it
\* succeeds it changes the map of the nearest scope that held the name and
\* no other, and when it fails it changes no map.
C5_AssignAddsNoBinding ==
    LET a == ghost.assign IN
    \A i \in DOMAIN a.chain :
        /\ DOMAIN a.after[i] = DOMAIN a.before[i]
        /\ (~a.ok \/ i # FirstHolder(a)) => a.after[i] = a.before[i]

\* C6: a class call yields the instance LoxClass::call created, and a call
\* of an initializer, on the new instance or on an instance directly,
\* yields the instance it is bound to; `init() { return; }` makes
\* `print Foo();` print "Foo instance".
C6_ClassCallYieldsInstance ==
    /\ (phase = "run" /\ ctl.mode = "val" /\ ctl.from = "ClassCall") =>
          /\ ctl.f \in DOMAIN heap.insts
          /\ ctl.val = InstanceV(ctl.f)
    /\ (/\ phase = "run"
        /\ ctl.mode = "val"
        /\ ctl.from = "Call"
        /\ heap.funs[ctl.f].is_initializer) =>
          /\ heap.funs[ctl.f].bound # 0
          /\ ctl.val = InstanceV(heap.funs[ctl.f].bound)
    /\ Done(SrcInitReturn) => out = <<"Foo instance">>

\* `b.init()`, with init inherited and returning from inside a loop,
\* called on an instance outside any class call.
C6_Witness ==
    /\ Sources[prog] = SrcInit
    /\ phase = "run"
    /\ ctl.mode = "val"
    /\ ctl.from = "Call"
    /\ heap.funs[ctl.f].is_initializer
    /\ ctl.val = InstanceV(heap.funs[ctl.f].bound)
    /\ out = <<"1">>
    /\ Len(kont) > 0
    /\ Top.k # "ClassCall"

\* The function whose body the evaluator is in (0: none).
RunningFunction ==
    IF \E i \in DOMAIN kont : kont[i].k = "Function"
    THEN kont[CHOOSE i \in DOMAIN kont :
                 /\ kont[i].k = "Function"
                 /\ \A j \in (i + 1)..Len(kont) : kont[j].k # "Function"].f
    ELSE 0

\* C7: a bound method's closure binds `this` to the instance it was bound
\* to, and `this` read in its body is that instance; the methods in a
\* class's table stay unbound, over the environment of the class
\* declaration, which binds no `this`; two bound methods of two instances
\* called after the variable was reassigned print 1 and 2.
C7_ThisFixedAtAccess ==
    /\ \A f \in DOMAIN heap.funs :
          heap.funs[f].bound # 0 =>
             /\ "this" \in DOMAIN heap.envs[heap.funs[f].closure].values
             /\ heap.envs[heap.funs[f].closure].values["this"]
                   = InstanceV(heap.funs[f].bound)
    /\ \A c \in DOMAIN heap.classes :
          \A m \in DOMAIN heap.classes[c].methods :
             LET method == heap.funs[heap.classes[c].methods[m]] IN
             /\ method.bound = 0
             /\ method.closure = heap.classes[c].at
             /\ "this" \notin DOMAIN heap.envs[method.closure].values
    /\ (/\ phase = "run"
        /\ ctl.mode = "val"
        /\ ctl.from = "This"
        /\ RunningFunction # 0
        /\ heap.funs[RunningFunction].bound # 0) =>
          ctl.val = InstanceV(heap.funs[RunningFunction].bound)
    /\ Done(SrcBoundMethods) => out = <<"1", "2">>

\* `this` read in m(), bound to the first instance while o holds the second.
C7_Witness ==
    /\ Sources[prog] = SrcBoundMethods
    /\ phase = "run"
    /\ ctl.mode = "val"
    /\ ctl.from = "This"
    /\ ctl.val = InstanceV(1)
    /\ "o" \in DOMAIN heap.envs[GlobalsId].values
    /\ heap.envs[GlobalsId].values["o"] = InstanceV(2)
    /\ out = <<>>

\* C8: the program of scenario 3, with `super.method()` in B.test and
\* C < B, parses, resolves and prints A.
C8_SuperScenarioPrintsA ==
    Done(SrcSuper) =>
        /\ parser.dropped = <<>>
        /\ resolver.errors = <<>>
        /\ ctl.err = ""
        /\ out = <<"A">>

\* C9: the nested for loops of scenario 6 parse with their break and print
\* 0 0 1 0 2 0.
C9_BreakInsideFor ==
    Done(SrcNestedBreak) =>
        /\ parser.dropped = <<>>
        /\ ctl.err = ""
        /\ out = <<"0", "0", "1", "0", "2", "0">>

\* C10: a Variable without a recorded depth yields what the global
\* environment binds to its name, or UndefinedVariable when it binds
\* nothing, whatever the current chain binds; both calls of showA print
\* global.
C10_UnresolvedReadsGlobals ==
    /\ (/\ phase = "run"
        /\ ctl.mode \in {"val", "err"}
        /\ ctl.from = "Variable"
        /\ ctl.node.id \notin DOMAIN locals) =>
          IF ctl.node.name \in DOMAIN heap.envs[GlobalsId].values
          THEN /\ ctl.mode = "val"
               /\ ctl.val = heap.envs[GlobalsId].values[ctl.node.name]
          ELSE /\ ctl.mode = "err"
               /\ ctl.err = "UndefinedVariable"
    /\ Done(SrcShowA) => out = <<"global", "global">>

\* The second call of showA: the block binds its own `a`, and the read
\* yields the global one.
C10_Witness ==
    /\ Sources[prog] = SrcShowA
    /\ phase = "run"
    /\ ctl.mode = "val"
    /\ ctl.from = "Variable"
    /\ ctl.node.name = "a"
    /\ ctl.node.id \notin DOMAIN locals
    /\ Holder(heap.envs, environment, "a") \notin {0, GlobalsId}
    /\ ctl.val = heap.envs[GlobalsId].values["a"]
    /\ ctl.val # heap.envs[Holder(heap.envs, environment, "a")].values["a"]

\* C11: a call of get_at or assign_at whose environment `distance` links up
\* is missing, or does not itself bind the name, fails and leaves every map
\* of the chain as it was, whatever the environments further out bind.
C11_AtConsultsOnlyAncestor ==
    LET a == ghost.assign IN
    (phase = "env" /\ a.name # "") =>
        ((a.distance + 1 \notin DOMAIN a.chain
          \/ a.name \notin DOMAIN a.before[a.distance + 1]) =>
            /\ ~a.ok
            /\ ctl.err = "UndefinedVariable"
            /\ a.after = a.before)

\* C12: once a declaration of the input has failed to parse, the statements
\* that did parse are neither resolved nor interpreted.
C12_NoRunAfterParseError ==
    parser.dropped # <<>> =>
        /\ phase # "resolve"
        /\ ~(phase = "run" /\ kont # <<>> /\ kont[1].k = "Interpret")
        /\ out = <<>>

\* C13: the resolver visits every statement the parser produced, Mutate and
\* Lambda expressions included, and yields its error list: it never aborts.
C13_ResolverFinishes ==
    /\ ~resolver.panicked
    /\ (phase \in {"run", "done"} /\ statements # <<>>) =>
          resolver.next = Len(statements) + 1

\* C14: `and` evaluates its right operand only when the left is truthy and
\* `or` only when it is falsy; a skipped operand has no effect and the
\* result is the left value itself: scenario 5 prints false, true and never
\* calls sideEffect, `1 or f()` yields 1 and `nil and f()` yields nil.
C14_ShortCircuit ==
    /\ Sources[prog] \in {SrcShortCircuit, SrcLogical} =>
          \A i \in DOMAIN kont :
             kont[i].k = "Function" =>
                heap.funs[kont[i].f].declaration.name # "sideEffect"
    /\ Done(SrcShortCircuit) => out = <<"false", "true">>
    /\ Done(SrcLogical) => out = <<"1", "nil", "2", "2", "0">>

\* `1 or sideEffect()` has yielded 1, its left operand.
C14_Witness ==
    /\ Sources[prog] = SrcLogical
    /\ phase = "run"
    /\ ctl.mode = "val"
    /\ ctl.from = "Logical"
    /\ ctl.node.operator = "Or"
    /\ ctl.node.right.k = "Call"
    /\ ctl.val = NumV(1)
    /\ out = <<>>

\* C15: a comma expression evaluates its left operand once, then its right
\* operand once, and yields the right value: `print (inc(), inc());` with
\* inc counting and printing prints 1, 2 and then 2.
C15_CommaOnce ==
    Done(SrcComma) => out = <<"1", "2", "2">>

\* C16: on every token sequence that ends in Eof, each turn of the loop of
\* parse() moves the cursor forward, and parse() returns its statements.
C16_ParseTerminates ==
    /\ [][(phase = "parse" /\ phase' = "parse") =>
             /\ parser'.current > parser.current
             /\ parser'.current < Len(tokens)]_vars
    /\ (phase = "parse") ~> (phase = "parsed")

\* parse() has returned from an input with nested loops of the parser, with
\* statements kept and declarations dropped.
C16_Witness ==
    /\ phase = "parsed"
    /\ Len(tokens) > MaxTokens + 1
    /\ Len(parser.dropped) >= 2
    /\ statements # <<>>
    /\ \E i \in DOMAIN statements : statements[i].k = "Block"

\* C17 as stated: every call of synchronize leaves the cursor at least one
\* token after the place where the failing declaration stopped.
C17_SynchronizeAdvances ==
    \A i \in DOMAIN parser.synced : parser.synced[i][2] > parser.synced[i][1]

\* C17: every call of synchronize leaves the cursor at least one token
\* after the place where the failing declaration stopped, unless that
\* place is the Eof token, where the cursor stays.
C17_SynchronizeAdvancesUnlessAtEnd ==
    \A i \in DOMAIN parser.synced :
        LET from == parser.synced[i][1]
            to == parser.synced[i][2] IN
        IF tokens[from + 1].kind = "Eof" THEN to = from ELSE to > from

\* Two calls in one input: one that skipped several tokens, one at Eof.
C17_Witness ==
    /\ \E i \in DOMAIN parser.synced :
          parser.synced[i][2] > parser.synced[i][1] + 1
    /\ \E i \in DOMAIN parser.synced :
          /\ parser.synced[i][2] = parser.synced[i][1]
          /\ tokens[parser.synced[i][1] + 1].kind = "Eof"

\* The index of the '"' that closes a string whose text starts at j, or 0.
RECURSIVE Closing(_, _)
Closing(source, j) ==
    IF j > Len(source) THEN 0
    ELSE IF source[j] = "\"" THEN j
    ELSE IF source[j] = "\\" THEN Closing(source, j + 2)
    ELSE Closing(source, j + 1)

\* The index after a line comment starting at j: its newline, or the end.
RECURSIVE LineEnd(_, _)
LineEnd(source, j) ==
    IF j > Len(source) \/ source[j] = "\n" THEN j ELSE LineEnd(source, j + 1)

\* The index of the '*' of the `*/` closing a block comment from j, or 0.
RECURSIVE CommentEnd(_, _)
CommentEnd(source, j) ==
    IF j + 1 > Len(source) THEN 0
    ELSE IF source[j] = "*" /\ source[j + 1] = "/" THEN j
    ELSE CommentEnd(source, j + 1)

\* The source from its i-th character on, without whitespace and comments;
\* a string literal is kept whole.
RECURSIVE Stripped(_, _)
Stripped(source, i) ==
    LET c == source[i]
        next == IF i < Len(source) THEN source[i + 1] ELSE NoChar IN
    CASE i > Len(source) -> ""
      [] i <= Len(source) /\ c \in {" ", "\r", "\t", "\n"} -> Stripped(source, i + 1)
      [] i <= Len(source) /\ c = "/" /\ next = "/" ->
            Stripped(source, LineEnd(source, i + 2))
      [] i <= Len(source) /\ c = "/" /\ next = "*" ->
            IF CommentEnd(source, i + 2) = 0 THEN ""
            ELSE Stripped(source, CommentEnd(source, i + 2) + 2)
      [] i <= Len(source) /\ c = "\"" ->
            IF Closing(source, i + 1) = 0 THEN Slice(source, i - 1, Len(source))
            ELSE Slice(source, i - 1, Closing(source, i + 1))
                    \o Stripped(source, Closing(source, i + 1) + 1)
      [] OTHER -> c \o Stripped(source, i + 1)

\* The lexemes of the first n tokens, one after the other.
RECURSIVE Lexemes(_, _)
Lexemes(toks, n) == IF n = 0 THEN "" ELSE Lexemes(toks, n - 1) \o toks[n].lexeme

\* C18: when scan_tokens returns Ok, the lexemes of its tokens before Eof,
\* concatenated in order, are the source without whitespace and comments,
\* and the line numbers of the tokens never decrease.
C18_LexemesCoverSource ==
    (phase = "scan" /\ scanner.pc = "done") =>
        /\ tokens[Len(tokens)].kind = "Eof"
        /\ Lexemes(tokens, Len(tokens) - 1) = Stripped(scanner.source, 1)
        /\ \A i \in 1..(Len(tokens) - 1) : tokens[i].line <= tokens[i + 1].line

\* The mixed source scanned: five tokens on lines 1 and 3, then Eof.
C18_Witness ==
    /\ scanner.source = SrcScanMixed
    /\ scanner.pc = "done"
    /\ [i \in DOMAIN tokens |-> tokens[i].kind]
          = <<"Identifier", "String", "Number", "BangEqual", "If", "Eof">>
    /\ [i \in DOMAIN tokens |-> tokens[i].line] = <<1, 1, 3, 3, 3, 3>>
    /\ tokens[2].literal = StrV("b c")
    /\ tokens[3].literal = [t |-> "Number", n |-> 1, s |-> "5"]

\* The newlines among source[a..b].
RECURSIVE Newlines(_, _, _)
Newlines(source, a, b) ==
    IF a >= b THEN 0
    ELSE (IF source[a + 1] = "\n" THEN 1 ELSE 0) + Newlines(source, a + 1, b)

\* C19: while string() scans a literal, the line counter has grown since
\* the opening quote by no more than one for each newline of the literal
\* up to and including the character under the cursor.
C19_StringNewlines ==
    scanner.pc = "string" =>
        scanner.line <= scanner.opened
            + Newlines(scanner.source, scanner.start,
                       IF ScanIsAtEnd(scanner) THEN scanner.current
                       ELSE scanner.current + 1)

---------------------------------------------------------------------------
(* Claims about assignment targets, the resolver's function and class      *)
(* state, mutation, calls, property access and activations.                *)

\* How many elements of the sequence s satisfy Test.
Count(s, Test(_)) == Cardinality({i \in DOMAIN s : Test(s[i])})

IsInvalidTarget(t) == t.result = "InvalidAssignmentTarget"

IsInvalidTargetError(e) == e = "InvalidAssignmentTarget"

\* C21: whenever assignment() has parsed a left-hand side, '=' and a value,
\* it returns Assign for a Variable, Set for a Get and the error
\* InvalidAssignmentTarget for every other left-hand side, and each such
\* error ends exactly one declaration, which yields no statement.
C21_AssignmentTargets ==
    phase \in {"parse", "parsed"} =>
        /\ \A i \in DOMAIN parser.targets :
              parser.targets[i].result =
                 CASE parser.targets[i].kind = "Variable" -> "Assign"
                   [] parser.targets[i].kind = "Get" -> "Set"
                   [] OTHER -> "InvalidAssignmentTarget"
        /\ Count(parser.targets, IsInvalidTarget)
              = Count(parser.dropped, IsInvalidTargetError)

\* `(a) = 1;` parsed: one target, a Grouping, refused, and no statement.
C21_Witness ==
    /\ phase = "parsed"
    /\ tokens = ScanTokens(<<"(", "a", ")", "=", "1", ";">>)
    /\ parser.targets = <<[kind |-> "Grouping", result |-> "InvalidAssignmentTarget"]>>
    /\ parser.dropped = <<"InvalidAssignmentTarget">>
    /\ statements = <<>>

\* A run of the resolver that has returned or aborted.
Resolved(next, panicked) == panicked \/ next > Len(statements)

C23_MutateWritesBinding ==
    /\ (phase = "run" /\ ctl.mode = "val" /\ ctl.from = "Mutate") =>
          LET a == ghost.assign
              h == FirstHolder(a) IN
          /\ a.ok
          /\ h # 0
          /\ ctl.val = a.before[h][a.name]
          /\ a.after[h][a.name] =
                NumV(ctl.val.n + (IF ctl.node.operator = "Increment" THEN 1 ELSE -1))
          /\ \A i \in DOMAIN a.chain : DOMAIN a.after[i] = DOMAIN a.before[i]
    /\ Done(SrcMutateInFn) => out = <<"11">>

\* The init a call of class c runs: that of the nearest class of its
\* superclass chain that declares one (0: none).
RECURSIVE InitOf(_)
InitOf(c) ==
    IF c = 0 THEN 0
    ELSE IF "init" \in DOMAIN heap.classes[c].methods
    THEN heap.classes[c].methods["init"]
    ELSE InitOf(heap.classes[c].superclass)

\* The number of arguments the callee value takes (-1: it takes no call).
Takes(callee) ==
    CASE callee.t = "Callable" ->
            IF heap.funs[callee.n].native THEN 0
            ELSE Len(heap.funs[callee.n].declaration.params)
      [] callee.t = "Class" ->
            IF InitOf(callee.n) = 0 THEN 0
            ELSE Len(heap.funs[InitOf(callee.n)].declaration.params)
      [] OTHER -> -1

\* C24: the checks of a call come after the callee and all the arguments
\* are evaluated; a callee that is no callable and no class, or a number of
\* arguments other than its arity, makes the call fail with FunctionError
\* at once, with the heap, the current environment and the output as they
\* were; any other call does not fail with FunctionError at that step.
C24_CallChecks ==
    [][AllEvaluated =>
          IF Len(Arguments) # Takes(Callee)
          THEN /\ ctl'.mode = "err"
               /\ ctl'.err = "FunctionError"
               /\ kont' = Pop
               /\ UNCHANGED <<heap, environment, out>>
          ELSE ~(ctl'.mode = "err" /\ ctl'.err = "FunctionError")]_vars

\* B(p(1), p(2)) refused, B taking the one parameter of the init it
\* inherits: both arguments were evaluated, no init ran, and the instance
\* of the earlier call is the only one.
C24_Witness ==
    /\ Sources[prog] = SrcCallChecks
    /\ ctl.mode = "err"
    /\ ctl.err = "FunctionError"
    /\ ctl.from = "Call"
    /\ ctl.node.callee.name = "B"
    /\ out = <<"0", "A", "1", "2">>
    /\ Len(heap.insts) = 1

\* The return statements of a statement that no function or method body
\* encloses, counted on the AST.
RECURSIVE FreeReturns(_), FreeReturnsIn(_, _)
FreeReturns(stmt) ==
    CASE stmt.k = "Return" -> 1
      [] stmt.k = "Block" -> FreeReturnsIn(stmt.stmts, Len(stmt.stmts))
      [] stmt.k = "If" -> FreeReturns(stmt.then_branch) + FreeReturns(stmt.else_branch)
      [] stmt.k = "While" -> FreeReturns(stmt.body)
      [] OTHER -> 0

FreeReturnsIn(stmts, n) ==
    IF n = 0 THEN 0 ELSE FreeReturnsIn(stmts, n - 1) + FreeReturns(stmts[n])

IsIllegalReturn(e) == e = "IllegalReturn"

\* C25: after each top-level statement the resolver has resolved, its
\* IllegalReturn errors are as many as the return statements so far that
\* no function or method body encloses, and current_function is None
\* again.
C25_IllegalReturnOutsideFunctions ==
    (phase # "parse" /\ ~resolver.panicked) =>
        /\ Count(resolver.errors, IsIllegalReturn)
              = FreeReturnsIn(statements, resolver.next - 1)
        /\ resolver.current_function = "None"

\* The five returns of SrcReturns resolved: those in g, f and m accepted,
\* the three that follow at top level reported.
C25_Witness ==
    /\ Sources[prog] = SrcReturns
    /\ phase = "done"
    /\ resolver.next = Len(statements) + 1
    /\ resolver.errors = <<"IllegalReturn", "IllegalReturn", "IllegalReturn">>

\* The uses of `this` in an expression, a statement, a sequence of either,
\* that no class declaration encloses, counted on the AST.
RECURSIVE FreeThis(_), FreeThisIn(_, _), FreeThisStmt(_), FreeThisStmts(_, _)
FreeThis(e) ==
    CASE e.k = "This" -> 1
      [] e.k = "Assign" -> FreeThis(e.value)
      [] e.k \in {"Binary", "Logical"} -> FreeThis(e.left) + FreeThis(e.right)
      [] e.k = "Ternary" ->
            FreeThis(e.condition) + FreeThis(e.true_expr) + FreeThis(e.false_expr)
      [] e.k = "Call" -> FreeThis(e.callee) + FreeThisIn(e.args, Len(e.args))
      [] e.k = "Set" -> FreeThis(e.object) + FreeThis(e.value)
      [] e.k = "Get" -> FreeThis(e.object)
      [] e.k = "Grouping" -> FreeThis(e.expr)
      [] e.k = "Unary" -> FreeThis(e.right)
      [] OTHER -> 0

FreeThisIn(es, n) == IF n = 0 THEN 0 ELSE FreeThisIn(es, n - 1) + FreeThis(es[n])

FreeThisStmt(stmt) ==
    CASE stmt.k = "Block" -> FreeThisStmts(stmt.stmts, Len(stmt.stmts))
      [] stmt.k = "Var" -> FreeThis(stmt.initializer)
      [] stmt.k = "Function" -> FreeThisStmts(stmt.decl.body, Len(stmt.decl.body))
      [] stmt.k \in {"Expression", "Print"} -> FreeThis(stmt.expr)
      [] stmt.k = "If" ->
            FreeThis(stmt.condition) + FreeThisStmt(stmt.then_branch)
               + FreeThisStmt(stmt.else_branch)
      [] stmt.k = "Return" -> FreeThis(stmt.value)
      [] stmt.k = "While" -> FreeThis(stmt.condition) + FreeThisStmt(stmt.body)
      [] OTHER -> 0

FreeThisStmts(stmts, n) ==
    IF n = 0 THEN 0 ELSE FreeThisStmts(stmts, n - 1) + FreeThisStmt(stmts[n])

IsThisOutsideClass(e) == e = "ThisOutsideClass"

\* C26: after each top-level statement the resolver has resolved, its
\* ThisOutsideClass errors are as many as the uses of `this` so far that no
\* class declaration encloses, and current_class is None again.
C26_ThisOutsideClasses ==
    (phase # "parse" /\ ~resolver.panicked) =>
        /\ Count(resolver.errors, IsThisOutsideClass)
              = FreeThisStmts(statements, resolver.next - 1)
        /\ resolver.current_class = "None"

\* SrcThisOutside resolved: the `this` of t and the one at top level
\* reported, the one in the function nested in m found two scopes up, in the
\* `this` scope of O.
C26_Witness ==
    /\ Sources[prog] = SrcThisOutside
    /\ phase = "done"
    /\ resolver.errors = <<"ThisOutsideClass", "ThisOutsideClass">>
    /\ \E id \in DOMAIN locals :
          /\ locals[id] = 2
          /\ ghost.found[id] = <<"this", statements[1].id>>
    /\ Cardinality({id \in DOMAIN ghost.found : ghost.found[id][1] = "this"}) = 1

\* The nearest class of the superclass chain of c that declares a method
\* of this name (0: none).
RECURSIVE Declaring(_, _)
Declaring(c, name) ==
    IF c = 0 THEN 0
    ELSE IF name \in DOMAIN heap.classes[c].methods THEN c
    ELSE Declaring(heap.classes[c].superclass, name)

\* C27: o.name yields the field when the instance holds one of that name,
\* whatever methods the classes declare; without a field, the method of
\* the nearest class of the chain that declares one, bound to o; and
\* TypeError when there is neither or o is no instance.  No instance gets a
\* field from it.
C27_FieldsBeforeMethods ==
    [][(Returning("Get") /\ ctl.mode = "val") =>
          LET o == ctl.val
              name == Top.node.name
              c == IF o.t = "Instance" THEN Declaring(heap.insts[o.n].klass, name)
                   ELSE 0 IN
          /\ heap'.insts = heap.insts
          /\ CASE o.t = "Instance" /\ name \in DOMAIN heap.insts[o.n].fields ->
                     /\ ctl'.mode = "val"
                     /\ ctl'.val = heap.insts[o.n].fields[name]
               [] o.t = "Instance" /\ name \notin DOMAIN heap.insts[o.n].fields
                    /\ c # 0 ->
                     /\ ctl'.mode = "val"
                     /\ ctl'.val.t = "Callable"
                     /\ heap'.funs[ctl'.val.n].bound = o.n
                     /\ heap'.funs[ctl'.val.n].owner = heap.classes[c].id
                     /\ heap'.funs[ctl'.val.n].declaration.name = name
               [] OTHER ->
                     /\ ctl'.mode = "err"
                     /\ ctl'.err = "TypeError"]_vars

\* o.n read after `o.n = 1`, A declaring a method n: the field's value.
C27_Witness ==
    /\ Sources[prog] = SrcFields
    /\ ctl.mode = "val"
    /\ ctl.from = "Get"
    /\ ctl.node.name = "n"
    /\ ctl.val = NumV(1)
    /\ out = <<"B", "A">>
    /\ Declaring(heap.insts[1].klass, "n") # 0


\* C28: loop_depth is 0 whenever parse() begins a top-level declaration,
\* also after a declaration was abandoned by an error inside a while, so
\* that no break outside every loop becomes a statement of the program.
C28_LoopDepthAtDeclaration ==
    /\ phase = "parse" => parser.loop_depth = 0
    /\ \A i \in DOMAIN statements : statements[i].k # "Break"

Above(envs, e) ==
    LET chain == Chain(envs, e) IN
    {chain[i] : i \in 2..Len(chain)}

\* C30: a call of a function runs in an environment that did not exist
\* before, holds exactly the parameters and encloses the function's
\* closure, and making it changes no environment that existed; no
\* environment made for a call has an environment made for a call of the
\* same function above it, so that what a nested call defines or finds along
\* its chain is never the activation still in progress; two counters from
\* two calls of makeCounter count apart, and r(1) prints its own x and n
\* after r(0) printed 0 0.
C30_CallsRunInNewEnvironments ==
    /\ [][(AllEvaluated /\ kont'[Len(kont')].k = "Function") =>
            LET function == heap'.funs[kont'[Len(kont')].f]
                params == function.declaration.params IN
            /\ environment' \notin DOMAIN heap.envs
            /\ environment' \in DOMAIN heap'.envs
            /\ heap'.envs[environment'].enclosing = function.closure
            /\ heap'.envs[environment'].values =
                  [name \in {params[i] : i \in DOMAIN params} |->
                      LET i == CHOOSE j \in DOMAIN params :
                                  /\ params[j] = name
                                  /\ \A k \in DOMAIN params :
                                        params[k] = name => k <= j IN
                      Arguments[i]]
            /\ \A e \in DOMAIN heap.envs : heap'.envs[e] = heap.envs[e]
            /\ kont'[Len(kont')].previous = environment]_vars
    /\ [](\A e \in DOMAIN heap.envs :
             heap.envs[e].tag[1] = "fn" =>
                \A a \in Above(heap.envs, e) : heap.envs[a].tag # heap.envs[e].tag)
    /\ [](Done(SrcActivations) =>
             /\ ctl.err = ""
             /\ out = <<"1", "2", "1", "0", "0", "1", "1">>)

\* r(0) running inside r(1), after the two counters printed 1 2 and 1.
C30_Witness ==
    /\ Sources[prog] = SrcActivations
    /\ out = <<"1", "2", "1">>
    /\ \E i, j \in DOMAIN kont :
          /\ i < j
          /\ kont[i].k = "Function"
          /\ kont[j].k = "Function"
          /\ kont[i].f = kont[j].f
    /\ "x" \in DOMAIN heap.envs[environment].values
    /\ heap.envs[environment].values["x"] = NumV(0)
---------------------------------------------------------------------------
Next ==
    \/ ParseDeclaration \/ ParseEnd \/ Fallback
    \/ ResolveStatement \/ ResolvePanic \/ ResolveEnd
    \/ Interpret \/ Evaluate \/ Propagate
    \/ ExecBlock \/ ExecuteBlock
    \/ ExecClass \/ ClassSuperclass
    \/ ExecExpression \/ ExpressionValue
    \/ ExecFunction
    \/ ExecIf \/ IfCondition
    \/ ExecPrint \/ PrintValue
    \/ ExecReturn \/ ReturnValue
    \/ ExecVar \/ VarValue
    \/ ExecWhile \/ WhileCondition \/ WhileBody
    \/ ExecBreak
    \/ EvalLiteral \/ EvalGrouping \/ EvalVariable \/ EvalThis \/ EvalLambda
    \/ EvalMutate
    \/ EvalAssign \/ AssignValue
    \/ EvalUnary \/ UnaryValue
    \/ EvalBinary \/ BinaryOperand
    \/ EvalLogical \/ LogicalLeft
    \/ EvalTernary \/ TernaryCondition
    \/ EvalGet \/ GetObject
    \/ EvalSet \/ SetObject \/ SetValue
    \/ EvalCall \/ CallArgument \/ CallFunction \/ CallClock \/ CallClass
    \/ CallOther \/ FunctionBody \/ ClassCallValue

Spec == Init /\ [][Next]_vars
===========================================================================
